---- MODULE Spec2Model ----
(***************************************************************************)
(* Model of the article extraction pipeline of Smart-News-Summarizer       *)
(* (src/scraper.py, class NewsExtractor).                                  *)
(*                                                                         *)
(* Texts are sequences of chunks.  A chunk is a fixed fragment of          *)
(* characters; the text a sequence stands for is the concatenation of its  *)
(* chunks:                                                                 *)
(*    " "         one space                                                *)
(*    "\n"        one newline                                              *)
(*    "continue"  "Continue"  "reading"   the words of the boilerplate     *)
(*                phrase 'continue reading' (scraper.py line 333)          *)
(*    "/"         a character outside the safe set of line 350             *)
(*    "http://t"  a URL                                                    *)
(*    "spon" "sored"   the two halves of the marker 'sponsored' (line 359) *)
(*    "advertisement" "Advertisement"   the word that is both an unwanted   *)
(*                phrase (line 329) and a marker (line 359)                 *)
(*    "."  "!"    sentence terminators                                     *)
(*    "Subscribe" "to" "our" "newsletter" "for" "more"   the words of the  *)
(*                sentence 'Subscribe to our newsletter for more!', also   *)
(*                in lower case ("subscribe") and upper case ("TO", ...)   *)
(*    "|"  "-"    the separators of a site suffix in a page title          *)
(*    "Title" "not" "Not" "found" "Found" "Headline" "Ti" "T"   words of   *)
(*                titles                                                   *)
(*    "H100"      a word of 100 letters                                    *)
(*    "Breaking:" "Foo" "Announces" "Bar" "ExampleNews"   words of the     *)
(*                page title 'Breaking: Foo Announces Bar | ExampleNews'   *)
(*    "S100"      100 words joined by slashes: 'lorem/lorem/.../lorem'     *)
(*    "W100"      100 words joined by spaces, what line 350 makes of S100  *)
(*    "Q50"       a quoted passage of 50 words without terminator:         *)
(*                '"lorem lorem ... lorem"'                                *)
(*    "P240"      a quoted passage of 5 sentences of 48 words each:        *)
(*                '"lorem ... lorem. lorem ... lorem. ... lorem"'          *)
(* Every operator on texts below does to the chunk sequence what the       *)
(* Python code does to the characters of the concatenation.                *)
(***************************************************************************)
EXTENDS Integers, Sequences, FiniteSets, TLC

VARIABLES
    pc,            \* position of the running extract_article call
    url,           \* argument of the running call
    validation,    \* (is_valid, message) returned by validate_url
    primary,       \* what the newspaper3k attempt did in this call
    fallback,      \* what the fallback fetch did in this call
    via,           \* call site of _fallback_extraction (line 81, 84, 88, 92)
    result,        \* value returned by extract_article
    escaped,       \* an exception left extract_article
    heads,         \* HEAD requests sent in this call
    downloads,     \* article.download() calls in this call
    fallbackCalls, \* invocations of _fallback_extraction in this call
    response,      \* what the HEAD request of validate_url did in this call
    cleanIn,       \* cleaner harness: the text given to the cleaner
    cleanOut,      \* cleaner harness: <<clean(x), clean(clean(x))>> so far
    scoreIn,       \* scorer harness: the data dict given to the scorer
    scoreOut,      \* scorer harness: the returned score, -1 before the call
    document,      \* resolver harness: the document the fallback fetched
    titleOut,      \* resolver harness: <<title>> once the title is resolved
    dateOut,       \* resolver harness: <<publish_date>> once it is resolved
    calls,         \* concurrent calls: the local variables of each task's call
    sessionLog,    \* concurrent calls: URLs requested through self.session
    statsIn,       \* stats harness: the two records given to get_article_stats
    statsOut,      \* stats harness: the statistics returned so far
    contentIn,     \* content harness: the document given to _extract_content
    strategy,      \* content harness: the strategy _extract_content is at
    evaluated,     \* content harness: the strategies whose candidates were computed
    contentOut,    \* content harness: <<what _extract_content returned>>
    session_state, \* app: st.session_state of each browser session
    browser,       \* app: URL, widgets and rendered screen of each session
    passed,        \* app: the right password was given, no logout since
    batchIn,       \* summarizer: the text and lengths given to batch_summarize
    position,      \* summarizer: lengths batch_summarize has processed
    results,       \* summarizer: the dict results of batch_summarize
    attempts,      \* summarizer: what happened in each generate_summary call
    seed,          \* summarizer: the seed given to torch.manual_seed
    batchOut,      \* summarizer: <<what batch_summarize returned>>
    batchEscaped   \* summarizer: an exception left batch_summarize

extractVars == <<pc, url, validation, primary, fallback, via, result, escaped,
                 heads, downloads, fallbackCalls, response>>
cleanVars == <<cleanIn, cleanOut>>
scoreVars == <<scoreIn, scoreOut>>
soupVars == <<document, titleOut, dateOut>>
concVars == <<calls, sessionLog>>
statsVars == <<statsIn, statsOut>>
contentVars == <<contentIn, strategy, evaluated, contentOut>>
appVars == <<session_state, browser, passed>>
sumVars == <<batchIn, position, results, attempts, seed, batchOut, batchEscaped>>
vars == <<extractVars, cleanVars, scoreVars, soupVars, concVars, statsVars,
         contentVars, appVars, sumVars>>

\* what a step of one part leaves alone
besideExtract == <<cleanVars, scoreVars, soupVars, concVars, statsVars,
    contentVars, appVars, sumVars>>
besideClean == <<extractVars, scoreVars, soupVars, concVars, statsVars,
    contentVars, appVars, sumVars>>
besideScore == <<extractVars, cleanVars, soupVars, concVars, statsVars,
    contentVars, appVars, sumVars>>
besideSoup == <<extractVars, cleanVars, scoreVars, concVars, statsVars,
    contentVars, appVars, sumVars>>
besideConc == <<extractVars, cleanVars, scoreVars, soupVars, statsVars,
    contentVars, appVars, sumVars>>
besideStats == <<extractVars, cleanVars, scoreVars, soupVars, concVars,
    contentVars, appVars, sumVars>>
besideContent == <<extractVars, cleanVars, scoreVars, soupVars, concVars,
    statsVars, appVars, sumVars>>
besideApp == <<extractVars, cleanVars, scoreVars, soupVars, concVars,
    statsVars, contentVars, sumVars>>
besideSum == <<extractVars, cleanVars, scoreVars, soupVars, concVars,
    statsVars, contentVars, appVars>>

----------------------------------------------------------------------------
(* Bounds *)

\* longest text (in chunks) given to the cleaner harness
MaxLen == 5
\* largest number of P240 paragraphs in a text given to the scorer harness
MaxParas == 5

----------------------------------------------------------------------------
(* Characters of the chunks *)

Whitespace == {" ", "\n"}

\* the characters of the class [.!?] of lines 430 and 451
Terminators == {".", "!"}

\* the chunks that hold more than one word
Blocks == {"Q50", "P240", "W100", "Comparison12", "Development18",
           "Implications11"}

\* the chunks that start with a quote character
Quoted == {"Q50", "P240"}

\* len() of the characters of a chunk
ChunkLen(c) ==
    CASE c = " " -> 1
      [] c = "\n" -> 1
      [] c = "continue" -> 8
      [] c = "Continue" -> 8
      [] c = "reading" -> 7
      [] c = "/" -> 1
      [] c = "http://t" -> 8
      [] c = "spon" -> 4
      [] c = "sored" -> 5
      [] c \in {"advertisement", "Advertisement"} -> 13
      [] c = "." -> 1
      [] c = "S100" -> 599
      [] c = "W100" -> 599
      [] c = "Q50" -> 301
      [] c = "P240" -> 1445
      [] c = "|" -> 1
      [] c = "-" -> 1
      [] c = "Title" -> 5
      [] c = "Ti" -> 2
      [] c = "T" -> 1
      [] c = "not" -> 3
      [] c = "Not" -> 3
      [] c = "found" -> 5
      [] c = "Found" -> 5
      [] c = "Headline" -> 8
      [] c = "H100" -> 100
      [] c = "H1000" -> 1000
      [] c \in {"Trending", "trending"} -> 8
      [] c = "He" -> 2
      [] c = "admits" -> 6
      [] c = "Sam" -> 3
      [] c = "Altman" -> 6
      [] c = "Manhattan" -> 9
      [] c = "Project" -> 7
      [] c \in {"implications", "Implications"} -> 12
      [] c = "Comparison12" -> 103
      [] c = "Development18" -> 140
      [] c = "Implications11" -> 82
      [] c = "Breaking:" -> 9
      [] c = "Foo" -> 3
      [] c = "Announces" -> 9
      [] c = "Bar" -> 3
      [] c = "ExampleNews" -> 11
      [] c \in {"Subscribe", "subscribe", "SUBSCRIBE"} -> 9
      [] c \in {"to", "TO"} -> 2
      [] c \in {"our", "OUR"} -> 3
      [] c \in {"newsletter", "NEWSLETTER"} -> 10
      [] c \in {"for", "FOR"} -> 3
      [] c \in {"more", "MORE"} -> 4
      [] c = "!" -> 1

\* whitespace-separated words inside a chunk that starts and ends a word
BlockWords(c) ==
    CASE c = "Q50" -> 50 [] c = "P240" -> 240 [] c = "W100" -> 100
      [] c = "Comparison12" -> 12 [] c = "Development18" -> 18
      [] c = "Implications11" -> 11 [] OTHER -> 1

\* segments between terminators inside a chunk
BlockSents(c) == CASE c = "P240" -> 5 [] OTHER -> 1

\* str.lower() of a chunk
Lower(c) ==
    CASE c = "Continue" -> "continue"
      [] c = "Advertisement" -> "advertisement"
      [] c = "Trending" -> "trending"
      [] c = "Implications" -> "implications"
      [] c = "Not" -> "not"
      [] c = "Found" -> "found"
      [] c = "Title" -> "title"
      [] c = "Headline" -> "headline"
      [] c = "Ti" -> "ti"
      [] c = "T" -> "t"
      [] c = "Breaking:" -> "breaking:"
      [] c = "Foo" -> "foo"
      [] c = "Announces" -> "announces"
      [] c = "Bar" -> "bar"
      [] c = "ExampleNews" -> "examplenews"
      [] c \in {"Subscribe", "SUBSCRIBE"} -> "subscribe"
      [] c = "TO" -> "to"
      [] c = "OUR" -> "our"
      [] c = "NEWSLETTER" -> "newsletter"
      [] c = "FOR" -> "for"
      [] c = "MORE" -> "more"
      [] OTHER -> c

SetMax(S) == CHOOSE x \in S : \A y \in S : y <= x
SetMin(S) == CHOOSE x \in S : \A y \in S : x <= y

RECURSIVE CharLen(_)
\* len(text)
CharLen(s) == IF s = <<>> THEN 0 ELSE ChunkLen(Head(s)) + CharLen(Tail(s))

RECURSIVE LStrip(_)
LStrip(s) == IF s # <<>> /\ Head(s) \in Whitespace THEN LStrip(Tail(s)) ELSE s

RECURSIVE RStrip(_)
RStrip(s) ==
    IF s # <<>> /\ s[Len(s)] \in Whitespace
    THEN RStrip(SubSeq(s, 1, Len(s) - 1)) ELSE s

\* str.strip()
Strip(s) == RStrip(LStrip(s))

\* len(text.split()): the maximal runs of non-whitespace characters
WordCount(s) ==
    LET starts == {i \in 1..Len(s) :
                      s[i] \notin Whitespace /\ (i = 1 \/ s[i-1] \in Whitespace)}
        RECURSIVE Inner(_)
        Inner(i) == IF i = 0 THEN 0
                    ELSE (IF s[i] \in Blocks THEN BlockWords(s[i]) - 1 ELSE 0)
                         + Inner(i - 1)
    IN Cardinality(starts) + Inner(Len(s))

----------------------------------------------------------------------------
(* _clean_extracted_text, scraper.py lines 316-362 *)

RECURSIVE CollapseWhitespaceBlanks(_)
\* re.sub(r' +', ' ', text): only the runs of spaces are collapsed, the
\* newlines stay
CollapseWhitespaceBlanks(s) ==
    IF s = <<>> THEN <<>>
    ELSE LET rest == CollapseWhitespaceBlanks(Tail(s))
         IN IF Head(s) = " "
            THEN (IF rest # <<>> /\ Head(rest) = " " THEN rest ELSE <<" ">> \o rest)
            ELSE <<Head(s)>> \o rest

RECURSIVE CollapseWhitespace(_)
\* re.sub(r'\s+', ' ', text): every run of whitespace becomes one space
CollapseWhitespace(s) ==
    IF s = <<>> THEN <<>>
    ELSE LET rest == CollapseWhitespace(Tail(s))
         IN IF Head(s) \in Whitespace
            THEN (IF rest # <<>> /\ Head(rest) = " " THEN rest ELSE <<" ">> \o rest)
            ELSE <<Head(s)>> \o rest

\* the entries of unwanted_phrases without wildcard that the chunks can
\* spell, in list order; each is matched with re.IGNORECASE
UnwantedPhrases == << <<"advertisement">>, <<"continue", " ", "reading">> >>

\* r'subscribe to.*?newsletter', the first entry of unwanted_phrases
SpanOpen == <<"subscribe", " ", "to">>
SpanClose == "newsletter"

\* the phrase matches at the start of s, whatever the letter case
MatchesAt(phrase, s) ==
    /\ Len(s) >= Len(phrase)
    /\ \A i \in 1..Len(phrase) : Lower(s[i]) = phrase[i]

RECURSIVE RemovePhrase(_, _)
\* re.sub(phrase, '', text, flags=re.IGNORECASE): the leftmost matches are
\* deleted in one left-to-right scan; the text is not scanned again
RemovePhrase(phrase, s) ==
    IF s = <<>> THEN <<>>
    ELSE IF MatchesAt(phrase, s)
         THEN RemovePhrase(phrase, SubSeq(s, Len(phrase) + 1, Len(s)))
         ELSE <<Head(s)>> \o RemovePhrase(phrase, Tail(s))

RECURSIVE RemoveSpans(_)
\* re.sub(r'subscribe to.*?newsletter', '', text, flags=re.IGNORECASE):
\* a match starts at 'subscribe to' and ends with the nearest 'newsletter'
\* behind it on the same line; what follows that word stays
RemoveSpans(s) ==
    IF s = <<>> THEN <<>>
    ELSE LET rest == SubSeq(s, Len(SpanOpen) + 1, Len(s))
             ends == {i \in 1..Len(rest) :
                         /\ Lower(rest[i]) = SpanClose
                         /\ \A j \in 1..(i - 1) : rest[j] # "\n"}
         IN IF MatchesAt(SpanOpen, s) /\ ends # {}
            THEN RemoveSpans(SubSeq(rest, SetMin(ends) + 1, Len(rest)))
            ELSE <<Head(s)>> \o RemoveSpans(Tail(s))

RECURSIVE RemovePhrases(_, _)
\* for phrase in unwanted_phrases: text = re.sub(phrase, '', text, ...)
RemovePhrases(phrases, s) ==
    IF phrases = <<>> THEN s
    ELSE RemovePhrases(Tail(phrases), RemovePhrase(Head(phrases), s))

\* the chunks that end a URL match: whitespace, the opening quote of a
\* quoted passage and '|'; every other chunk is made of characters of the
\* URL class ("W100" exists only in texts that went through line 350,
\* where no URL is left)
EndsUrl(c) == c \in Whitespace \/ c \in Quoted \/ c = "|"

RECURSIVE SkipUrl(_)
SkipUrl(s) == IF s = <<>> \/ EndsUrl(Head(s)) THEN s ELSE SkipUrl(Tail(s))

RECURSIVE RemoveUrls(_)
\* re.sub(r'http[s]?://(?:...)+', '', text): the match is greedy and takes
\* everything up to the next character outside the class
RemoveUrls(s) ==
    IF s = <<>> THEN <<>>
    ELSE IF Head(s) = "http://t" THEN RemoveUrls(SkipUrl(Tail(s)))
         ELSE <<Head(s)>> \o RemoveUrls(Tail(s))

\* re.sub(r'\b[A-Za-z0-9._%+-]+@...', '', text): no chunk holds an '@'
RemoveEmails(s) == s

\* re.sub(r'[^\w\s.,!?;:()\[\]{}"\'-]', ' ', text)
ReplaceUnsafe(s) ==
    [i \in 1..Len(s) |-> CASE s[i] \in {"/", "|"} -> " "
                            [] s[i] = "S100" -> "W100"
                            [] OTHER -> s[i]]

RECURSIVE SplitLines(_)
\* text.split('\n')
SplitLines(s) ==
    IF \A i \in 1..Len(s) : s[i] # "\n" THEN <<s>>
    ELSE LET k == CHOOSE i \in 1..Len(s) :
                      s[i] = "\n" /\ \A j \in 1..(i-1) : s[j] # "\n"
         IN <<SubSeq(s, 1, k - 1)>> \o SplitLines(SubSeq(s, k + 1, Len(s)))

\* the entries of the marker list of line 359 that the chunks can spell
Markers == { <<"advertisement">>, <<"spon", "sored">> }

\* any(word in line.lower() for word in [...])
HasMarker(line) ==
    \E m \in Markers : \E i \in 0..(Len(line) - Len(m)) :
        \A j \in 1..Len(m) : Lower(line[i + j]) = m[j]

\* len(line) > 10 and not any(...)
KeepLine(line) == CharLen(line) > 10 /\ ~HasMarker(line)

RECURSIVE JoinLines(_)
\* ' '.join(cleaned_lines)
JoinLines(ls) ==
    IF ls = <<>> THEN <<>>
    ELSE IF Len(ls) = 1 THEN ls[1]
         ELSE ls[1] \o <<" ">> \o JoinLines(Tail(ls))

RECURSIVE FilterLines(_)
\* the loop of lines 356-360
FilterLines(ls) ==
    IF ls = <<>> THEN <<>>
    ELSE LET line == Strip(Head(ls))
         IN (IF KeepLine(line) THEN <<line>> ELSE <<>>) \o FilterLines(Tail(ls))

\* the value of text at line 353, after the substitutions of lines 322-351
NormalizedText(text) ==
    LET t1 == CollapseWhitespace(text)
        t2 == RemovePhrases(UnwantedPhrases, RemoveSpans(t1))
        t3 == RemoveUrls(t2)
        t4 == RemoveEmails(t3)
        t5 == ReplaceUnsafe(t4)
    IN CollapseWhitespace(t5)

\* _clean_extracted_text(text)
CleanExtractedText(text) ==
    IF text = <<>> THEN <<>>
    ELSE Strip(JoinLines(FilterLines(SplitLines(NormalizedText(text)))))

----------------------------------------------------------------------------
(* Cleaner harness: a text is drawn, then cleaned once, then once more *)

CleanAlphabet ==
    {" ", "continue", "Continue", "reading", "/", "http://t", "spon", "sored"}

SeqsUpTo(S, n) == UNION {[1..k -> S] : k \in 0..n}

\* 'Subscribe to our newsletter for more!' in three letter cases
NewsletterSentences ==
    { <<"Subscribe", " ", "to", " ", "our", " ", "newsletter", " ", "for", " ", "more", "!">>,
      <<"subscribe", " ", "to", " ", "our", " ", "newsletter", " ", "for", " ", "more", "!">>,
      <<"SUBSCRIBE", " ", "TO", " ", "OUR", " ", "NEWSLETTER", " ", "FOR", " ", "MORE", "!">> }

\* the sentence alone, after, before and inside an article text
NewsletterTexts ==
    { before \o sentence \o after :
         before \in { <<>>, <<"Q50", ".", " ">> },
         sentence \in NewsletterSentences,
         after \in { <<>>, <<" ", "Q50", ".">> } }

CleanIdle == /\ cleanIn = <<>>
             /\ cleanOut = <<>>

ExtractIdle ==
    /\ pc = "idle"
    /\ url = "none"
    /\ validation = [is_valid |-> FALSE, message |-> <<>>]
    /\ primary = [kind |-> "none"]
    /\ fallback = [kind |-> "none"]
    /\ via = 0
    /\ result = [pending |-> TRUE]
    /\ escaped = FALSE
    /\ heads = 0
    /\ downloads = 0
    /\ fallbackCalls = 0
    /\ response = [kind |-> "none"]

SoupIdle ==
    /\ document = [pending |-> TRUE]
    /\ titleOut = <<>>
    /\ dateOut = <<>>

\* the tasks that call extract_article on the one NewsExtractor that
\* load_ai_components (app.py lines 72-75) caches for all sessions
Tasks == {1, 2}

\* the local variables of a call that has not started
NoCall ==
    [pc |-> "idle", url |-> "none", head |-> [kind |-> "none"],
     primary |-> [kind |-> "none"], fallback |-> [kind |-> "none"],
     authors |-> <<>>, now |-> "none", result |-> [pending |-> TRUE]]

ConcIdle ==
    /\ calls = [t \in Tasks |-> NoCall]
    /\ sessionLog = <<>>

StatsIdle ==
    /\ statsIn = <<>>
    /\ statsOut = <<>>

ContentIdle ==
    /\ contentIn = [pending |-> TRUE]
    /\ strategy = 0
    /\ evaluated = <<>>
    /\ contentOut = <<>>

\* the browser sessions of the app; each has its own st.session_state
Sessions == {1, 2}

\* config.initialize_session_state(), config.py lines 12-17, on a new session
InitialSessionState == [app_mode |-> "showcase", debug_authenticated |-> FALSE]

\* a session whose page is not open yet
ClosedPage ==
    [mode_param |-> "none", screen |-> "none", password |-> "", rerun |-> FALSE,
     event |-> "none"]

AppIdle ==
    /\ session_state = [s \in Sessions |-> InitialSessionState]
    /\ browser = [s \in Sessions |-> ClosedPage]
    /\ passed = [s \in Sessions |-> FALSE]

SumIdle ==
    /\ batchIn = [pending |-> TRUE]
    /\ position = 0
    /\ results = <<>>
    /\ attempts = <<>>
    /\ seed = 0
    /\ batchOut = <<>>
    /\ batchEscaped = FALSE

ScoreIdle == /\ scoreIn = [pending |-> TRUE]
             /\ scoreOut = -1

\* texts of several lines, and texts with a marker that the substitutions
\* of lines 340-344 remove or make
MultiLineTexts ==
    { <<"Q50", "\n", "spon", "sored">>,
      <<"advertisement", "\n", "Q50">>,
      <<"Q50", " ", "Advertisement", " ", "reading">>,
      <<"Q50", " ", "http://t", "spon", "sored", " ", "reading">>,
      <<"spon", "continue", " ", "reading", "sored", " ", "Q50">>,
      <<"spon", "sored", " ", "reading", "\n", "Q50", ".", "\n", "Q50">>,
      <<"Q50", ".", "\n", "Q50", ".">>,
      <<"Q50", "\n", "reading", "\n", "\n", "Q50">>,
      <<"reading", "\n", "reading">> }

InitClean ==
    /\ cleanIn \in SeqsUpTo(CleanAlphabet, MaxLen) \cup NewsletterTexts
                   \cup MultiLineTexts
    /\ cleanOut = <<>>
    /\ ExtractIdle
    /\ ScoreIdle
    /\ SoupIdle
    /\ ConcIdle
    /\ StatsIdle
    /\ ContentIdle
    /\ AppIdle
    /\ SumIdle

\* cleaned = _clean_extracted_text(x)
CleanOnce ==
    /\ Len(cleanOut) = 0
    /\ cleanOut' = <<CleanExtractedText(cleanIn)>>
    /\ UNCHANGED <<cleanIn, besideClean>>

\* _clean_extracted_text(cleaned)
CleanAgain ==
    /\ Len(cleanOut) = 1
    /\ cleanOut' = Append(cleanOut, CleanExtractedText(cleanOut[1]))
    /\ UNCHANGED <<cleanIn, besideClean>>

NextClean == CleanOnce \/ CleanAgain

SpecClean == InitClean /\ [][NextClean]_vars

----------------------------------------------------------------------------
(* _calculate_quality_score, scraper.py lines 392-438 *)

Min(a, b) == IF a < b THEN a ELSE b

RECURSIVE SentenceFold(_, _, _, _, _)
\* walks re.split(r'[.!?]+', text): cnt segments with len(s.strip()) > least
\* are closed so far, the open segment has ln characters from its first to
\* its last non-blank character and pend blanks after them
SentenceFold(s, cnt, ln, pend, least) ==
    LET closed == cnt + (IF ln > least THEN 1 ELSE 0)
    IN IF s = <<>> THEN closed
       ELSE LET c == Head(s)
            IN CASE c \in Terminators -> SentenceFold(Tail(s), closed, 0, 0, least)
                 [] c \in Whitespace ->
                        SentenceFold(Tail(s), cnt, ln, IF ln > 0 THEN pend + 1 ELSE 0, least)
                 [] c \notin Whitespace /\ c \notin Terminators /\ BlockSents(c) > 1 ->
                        \* the first sentence of the passage ends the open
                        \* segment, the last one opens a new one; each
                        \* sentence of a passage is longer than 10 characters
                        SentenceFold(Tail(s), cnt + BlockSents(c) - 1, ChunkLen(c), 0, least)
                 [] OTHER ->
                        SentenceFold(Tail(s), cnt, ln + pend + ChunkLen(c), 0, least)

\* len([s for s in re.split(r'[.!?]+', text) if len(s.strip()) > 10])
SentenceCount(text) == SentenceFold(text, 0, 0, 0, 10)

\* 'not found' in title.lower()
ContainsNotFound(title) ==
    \E i \in 1..Len(title) :
        MatchesAt(<<"not", " ", "found">>, SubSeq(title, i, Len(title)))

\* lines 396-409 with 45 points above 1000 words
WordCountPointsWide(word_count) ==
    IF word_count > 1000 THEN 45
    ELSE IF word_count > 500 THEN 35
    ELSE IF word_count > 300 THEN 30
    ELSE IF word_count > 200 THEN 25
    ELSE IF word_count > 100 THEN 20
    ELSE 10

\* lines 396-409
WordCountPoints(word_count) ==
    IF word_count > 1000 THEN 40
    ELSE IF word_count > 500 THEN 35
    ELSE IF word_count > 300 THEN 30
    ELSE IF word_count > 200 THEN 25
    ELSE IF word_count > 100 THEN 20
    ELSE 10

\* lines 411-418
TitlePoints(title) ==
    IF CharLen(title) > 20 /\ ~ContainsNotFound(title) THEN 20
    ELSE IF CharLen(title) > 10 THEN 15
    ELSE IF CharLen(title) > 5 THEN 10
    ELSE 0

\* lines 420-422
AuthorPoints(authors) == IF authors # <<>> /\ Len(authors) > 0 THEN 10 ELSE 0

\* lines 424-426; an absent date is None
DatePoints(publish_date) == IF publish_date # "None" THEN 10 ELSE 0

\* lines 428-436
SentencePoints(text) ==
    LET sentences == SentenceCount(text)
    IN IF sentences > 20 THEN 20
       ELSE IF sentences > 10 THEN 15
       ELSE IF sentences > 5 THEN 10
       ELSE 0

\* the value of score when line 438 is reached
ScoreSum(data) ==
    WordCountPoints(data.word_count) + TitlePoints(data.title)
    + AuthorPoints(data.authors) + DatePoints(data.publish_date)
    + SentencePoints(data.text)

\* _calculate_quality_score(data)
CalculateQualityScore(data) == Min(ScoreSum(data), 100)

----------------------------------------------------------------------------
(* Scorer harness: a data dict is drawn, then scored *)

RECURSIVE Paragraphs(_)
\* n passages of 5 sentences, each followed by a terminator and a space
Paragraphs(n) == IF n = 0 THEN <<>> ELSE <<"P240", ".", " ">> \o Paragraphs(n - 1)

ScoreTexts ==
    {Paragraphs(n) \o tail : n \in 0..MaxParas, tail \in {<<>>, <<"Q50">>}}

ScoreWordCounts == {0, 100, 101, 200, 201, 300, 301, 500, 501, 1000, 1001, 1200}

ScoreTitles ==
    { <<>>,
      <<"Title">>,
      <<"Title", " ">>,
      <<"Headline", " ", " ">>,
      <<"Headline", " ", " ", " ">>,
      <<"Title", " ", "not", " ", "found">>,
      <<"Headline", " ", "Headline", " ", " ", " ">>,
      <<"Headline", " ", "Headline", " ", "Title">>,
      <<"Headline", " ", "Not", " ", "Found", " ", "Headline">> }

ScoreAuthors == { <<>>, <<"Jane Doe">>, <<"Jane Doe", "John Roe">> }

ScoreDates == {"None", "2024-08-13T10:00:00"}

InitScore ==
    /\ scoreIn \in [word_count : ScoreWordCounts, title : ScoreTitles,
                    authors : ScoreAuthors, publish_date : ScoreDates,
                    text : ScoreTexts]
    /\ scoreOut = -1
    /\ ExtractIdle
    /\ CleanIdle
    /\ SoupIdle
    /\ ConcIdle
    /\ StatsIdle
    /\ ContentIdle
    /\ AppIdle
    /\ SumIdle

\* score = self._calculate_quality_score(data)
Score ==
    /\ scoreOut = -1
    /\ scoreOut' = CalculateQualityScore(scoreIn)
    /\ UNCHANGED <<scoreIn, besideScore>>

NextScore == Score

SpecScore == InitScore /\ [][NextScore]_vars

----------------------------------------------------------------------------
(* _validate_and_clean_data, scraper.py lines 364-390 *)

RECURSIVE TakeChars(_, _)
\* title[:n]; the titles of the model are cut between two chunks
TakeChars(s, n) ==
    IF s = <<>> \/ ChunkLen(Head(s)) > n THEN <<>>
    ELSE <<Head(s)>> \o TakeChars(Tail(s), n - ChunkLen(Head(s)))

\* len(author)
AuthorLen(a) ==
    CASE a = "Jane Doe" -> 8
      [] a = "John Roe" -> 8
      [] a = "Ann Lee" -> 7
      [] a = "Bob Ray" -> 7
      [] a = "Cy Dunn" -> 7
      [] a = "Di Fox" -> 6
      [] a = " Jane Doe " -> 10
      [] a = " Cy Dunn" -> 8
      [] a = "Staff" -> 5
      [] a = "admin" -> 5
      [] a = "Editor" -> 6
      [] a = "A100" -> 100   \* a byline of 100 characters
      [] a = "" -> 0

\* author.lower()
AuthorLower(a) ==
    CASE a = "Jane Doe" -> "jane doe"
      [] a = "John Roe" -> "john roe"
      [] a = "Ann Lee" -> "ann lee"
      [] a = "Bob Ray" -> "bob ray"
      [] a = "Cy Dunn" -> "cy dunn"
      [] a = "Di Fox" -> "di fox"
      [] a = " Jane Doe " -> " jane doe "
      [] a = "Staff" -> "staff"
      [] a = "Editor" -> "editor"
      [] a = "A100" -> "a100"
      [] OTHER -> a

\* author.strip()
AuthorStrip(a) ==
    CASE a = " Jane Doe " -> "Jane Doe"
      [] a = " Cy Dunn" -> "Cy Dunn"
      [] OTHER -> a

\* lines 378-382 without the slice [:5] of line 382
CleanAuthorsUncapped(authors) ==
    LET Ok(a) == AuthorLen(a) < 100 /\ AuthorLower(a) \notin {"admin", "editor", "staff"}
    IN SelectSeq(authors, Ok)

\* lines 378-382
CleanAuthors(authors) ==
    LET Ok(a) == AuthorLen(a) < 100 /\ AuthorLower(a) \notin {"admin", "editor", "staff"}
        cleaned_authors == SelectSeq(authors, Ok)
    IN SubSeq(cleaned_authors, 1, Min(5, Len(cleaned_authors)))

\* lines 372-374 without line 374
RecountWordsStale(data, text) == data.word_count

\* lines 372-374
RecountWords(data, text) == IF data.text # <<>> THEN WordCount(text) ELSE data.word_count

\* line 388 giving the scorer the fields as they were before lines 366-382
ScoredDataRaw(data, d1) == data

\* line 388: the scorer is given data after the assignments of lines 366-385
ScoredData(data, d1) == d1

\* _validate_and_clean_data(data), with datetime.now() = now
ValidateAndCleanData(data, now) ==
    LET title == IF data.title # <<>>
                 THEN Strip(CollapseWhitespace(TakeChars(data.title, 200)))
                 ELSE data.title
        text == IF data.text # <<>> THEN CleanExtractedText(data.text) ELSE data.text
        word_count == RecountWords(data, text)
        authors == IF data.authors # <<>> THEN CleanAuthors(data.authors) ELSE data.authors
        d1 == [data EXCEPT !.title = title, !.text = text,
                           !.word_count = word_count, !.authors = authors]
    IN [title |-> d1.title, text |-> d1.text, authors |-> d1.authors,
        publish_date |-> d1.publish_date, source_url |-> d1.source_url,
        word_count |-> d1.word_count, extraction_method |-> d1.extraction_method,
        extracted_at |-> now, quality_score |-> CalculateQualityScore(ScoredData(data, d1))]

----------------------------------------------------------------------------
(* The resolvers of the fallback path, scraper.py lines 154-314.  A page is  *)
(* the parsed document; jsonld lists its scripts, the other fields list     *)
(* what lies outside the elements that lines 103-123 remove:                 *)
(*   title_tags    texts of the <title> elements                             *)
(*   meta_titles   content of og:title, twitter:title, title ("" if absent)  *)
(*   h1s           texts of the <h1> elements                                *)
(*   selected      texts of the elements matched by content_selectors        *)
(*   paragraphs    texts of the <p> elements                                 *)
(*   divs          texts of the <div> elements                               *)
(*   body          text of the whole document                                *)
(*   bylines       texts of the elements matched by author_selectors         *)
(*   meta_authors  content of the author, article:author metas              *)
(*   date_metas    content of article:published_time, publishdate, date      *)
(*   time_attrs    datetime attributes of the <time> elements                *)
(*   jsonld        the application/ld+json scripts                           *)

\* lines 103-123: every element named in unwanted_elements is decomposed;
\* 'script' is the first name of the list and find_all('script') finds the
\* script elements of every type, so no ld+json script is left in the soup
DecomposeUnwanted(page) == [page EXCEPT !.jsonld = <<>>]

\* re.sub(r'\s*SEP\s*.*$', '', title): the match starts at the leftmost
\* separator that has no newline behind it other than in the whitespace
\* that follows it directly ('.' stops at a newline, '$' is the end of the
\* title), and takes the whitespace before the separator too
StripSuffix(sep, t) ==
    LET AfterBlanks(i) ==
            SetMin({j \in (i + 1)..Len(t) : t[j] \notin Whitespace} \cup {Len(t) + 1})
        ks == {i \in 1..Len(t) :
                  /\ t[i] = sep
                  /\ \A j \in AfterBlanks(i)..Len(t) : t[j] # "\n"}
    IN IF ks = {} THEN t ELSE RStrip(SubSeq(t, 1, SetMin(ks) - 1))

NotFoundTitle == <<"Title", " ", "not", " ", "found">>

\* _extract_title(soup)
ExtractTitle(page) ==
    LET title == IF page.title_tags = <<>> THEN <<>>
                 ELSE StripSuffix("-", StripSuffix("|", Strip(page.title_tags[1])))
        metas == {i \in 1..Len(page.meta_titles) : page.meta_titles[i] # <<>>}
    IN IF page.title_tags # <<>> /\ CharLen(title) > 10 THEN title
       ELSE IF metas # {} THEN Strip(page.meta_titles[SetMin(metas)])
       ELSE IF page.h1s # <<>> THEN Strip(page.h1s[1])
       ELSE NotFoundTitle

RECURSIVE JoinTexts(_)
\* ' '.join(texts)
JoinTexts(ts) ==
    IF ts = <<>> THEN <<>>
    ELSE IF Len(ts) = 1 THEN ts[1]
         ELSE ts[1] \o <<" ">> \o JoinTexts(Tail(ts))

\* _extract_content(soup)
ExtractContent(page) ==
    LET good == {i \in 1..Len(page.selected) : WordCount(page.selected[i]) > 100}
        combined_text == JoinTexts(page.paragraphs)
        big == {i \in 1..Len(page.divs) : WordCount(page.divs[i]) > 200}
    IN IF good # {} THEN CleanExtractedText(page.selected[SetMin(good)])
       ELSE IF page.paragraphs # <<>> /\ WordCount(combined_text) > 100
            THEN CleanExtractedText(combined_text)
       ELSE IF big # {} THEN CleanExtractedText(page.divs[SetMin(big)])
       ELSE CleanExtractedText(page.body)

\* the list authors of _extract_authors before line 246
AuthorCandidates(page) ==
    LET Short(a) == a # "" /\ AuthorLen(a) < 100
        Present(a) == a # ""
        metas == SelectSeq(page.meta_authors, Present)
    IN SelectSeq(page.bylines, Short) \o [i \in 1..Len(metas) |-> AuthorStrip(metas[i])]

RECURSIVE Distinct(_)
\* the elements of a list, each kept at its first place
Distinct(l) ==
    IF l = <<>> THEN <<>>
    ELSE LET front == Distinct(SubSeq(l, 1, Len(l) - 1))
         IN IF \E i \in 1..Len(front) : front[i] = l[Len(l)]
            THEN front ELSE Append(front, l[Len(l)])

Reverse(l) == [i \in 1..Len(l) |-> l[Len(l) + 1 - i]]

Rotations(l) ==
    {SubSeq(l, k, Len(l)) \o SubSeq(l, 1, k - 1) : k \in 1..Len(l)} \cup {l}

\* list(set(authors)): the candidates without duplicates, in the order in
\* which the set happens to be iterated, which differs from run to run;
\* the orders taken here are the rotations of the list and of its reverse,
\* so that every candidate comes at every place
ExtractAuthors(page) ==
    LET l == Distinct(AuthorCandidates(page))
    IN Rotations(l) \cup Rotations(Reverse(l))

\* dateutil parser.parse(s) succeeds
Parseable(s) == s \in {"2024-08-13T10:00:00Z", "2024-08-12"}

\* the datetime parser.parse(s) returns
ParseDate(s) ==
    CASE s = "2024-08-13T10:00:00Z" -> "datetime(2024, 8, 13, 10, 0, tzinfo=tzutc())"
      [] s = "2024-08-12" -> "datetime(2024, 8, 12, 0, 0)"

RECURSIVE FirstParsed(_)
\* lines 252-287: the first candidate that is present and parses
FirstParsed(cands) ==
    IF cands = <<>> THEN "None"
    ELSE IF Head(cands) # "" /\ Parseable(Head(cands)) THEN ParseDate(Head(cands))
         ELSE FirstParsed(Tail(cands))

\* lines 292-308 for one script: [valid |-> json.loads succeeds,
\* dates |-> datePublished of the object, or of each entry of the array]
BlockDate(block) ==
    LET have == {i \in 1..Len(block.dates) : block.dates[i] # ""}
    IN IF ~block.valid \/ have = {} THEN "None"
       ELSE IF Parseable(block.dates[SetMin(have)])
            THEN ParseDate(block.dates[SetMin(have)])
            ELSE "None"

RECURSIVE FirstBlockDate(_)
FirstBlockDate(blocks) ==
    IF blocks = <<>> THEN "None"
    ELSE IF BlockDate(Head(blocks)) # "None" THEN BlockDate(Head(blocks))
         ELSE FirstBlockDate(Tail(blocks))

\* _extract_publish_date(soup)
ExtractPublishDate(page) ==
    LET early == FirstParsed(page.date_metas \o page.time_attrs)
    IN IF early # "None" THEN early ELSE FirstBlockDate(page.jsonld)

----------------------------------------------------------------------------
(* validate_url, scraper.py lines 32-44 *)

Urls == {"https://news.example/a", "https://news.example/b", "news example"}

\* validators.url(url)
UrlSyntaxOk(u) == u \in {"https://news.example/a", "https://news.example/b"}

\* what self.session.head(url, timeout=5) does: a response with a status
\* code, or a requests.exceptions.RequestException
HeadOutcomes ==
    { [kind |-> "status", detail |-> "200"],
      [kind |-> "status", detail |-> "301"],
      [kind |-> "status", detail |-> "404"],
      [kind |-> "status", detail |-> "500"],
      [kind |-> "exception", detail |-> "ConnectTimeout"] }

\* validate_url(url) with 'status_code < 400' instead of '== 200' at line 39
ValidateUrlLenient(u, head) ==
    IF ~UrlSyntaxOk(u)
    THEN [is_valid |-> FALSE, message |-> <<"Invalid URL format">>]
    ELSE IF head.kind = "status"
         THEN (IF head.detail \in {"200", "301"}
               THEN [is_valid |-> TRUE, message |-> <<"URL is accessible">>]
               ELSE [is_valid |-> FALSE, message |-> <<"HTTP ", head.detail, " error">>])
         ELSE [is_valid |-> FALSE, message |-> <<"Connection error: ", head.detail>>]

\* validate_url(url), the HEAD request answering head
ValidateUrl(u, head) ==
    IF ~UrlSyntaxOk(u)
    THEN [is_valid |-> FALSE, message |-> <<"Invalid URL format">>]
    ELSE IF head.kind = "status"
         THEN (IF head.detail = "200"
               THEN [is_valid |-> TRUE, message |-> <<"URL is accessible">>]
               ELSE [is_valid |-> FALSE, message |-> <<"HTTP ", head.detail, " error">>])
         ELSE [is_valid |-> FALSE, message |-> <<"Connection error: ", head.detail>>]

----------------------------------------------------------------------------
(* Inputs of extract_article *)

\* datetime.now()
Timestamps == {"2026-01-01 09:00:00", "2026-01-01 09:00:01"}

Q2 == <<"Q50", " ", "Q50">>

\* article.text after article.parse()
PrimaryTexts ==
    { <<>>,                                           \* no text
      <<"Q50">>,                                      \* 50 words
      <<"Q50", " ", "reading">>,                      \* 51 words
      Q2,                                             \* 100 words
      <<"Q50", "/", "Q50">>,                          \* 99 words, 100 cleaned
      Q2 \o <<" ", "continue", " ", "reading">>,      \* 102 words, 100 cleaned
      Q2 \o <<" ", "continue", "/", "reading">>,      \* 101 words, 102 cleaned
      Q2 \o <<" ", "spon", "sored">>,                 \* 101 words, 0 cleaned
      <<"S100">>,                                     \* 1 word, 100 cleaned
      Paragraphs(5) }                                 \* 1200 words

LongTitle == <<"Headline", " ", "Headline", " ", "Title">>

PrimaryTitles == { <<>>, LongTitle, <<"H100", "H100", " ", "Headline">> }

\* article.authors: newspaper3k gives the names it parsed from the bylines
\* without surrounding blanks and without duplicates, at most 10 of them
PrimaryAuthors ==
    { <<>>, <<"Jane Doe">>, <<"Staff", "Jane Doe">>, <<"A100", "Editor">>,
      <<"Jane Doe", "John Roe", "Ann Lee", "Staff", "Bob Ray", "Cy Dunn", "Di Fox">> }

PublishDates == {"None", "datetime(2024, 8, 12, 0, 0)"}

Article(title, text, authors, publish_date) ==
    [title |-> title, text |-> text, authors |-> authors, publish_date |-> publish_date]

\* the fields of the newspaper3k Article after parse()
Articles ==
    {Article(LongTitle, t, <<"Jane Doe">>, "None") : t \in PrimaryTexts}
    \cup {Article(ti, Q2, au, d) : ti \in PrimaryTitles, au \in PrimaryAuthors,
                                   d \in PublishDates}

NoArticle == Article(<<>>, <<>>, <<>>, "None")

\* what lines 55-75 do: an exception raised before the inner try
\* (outer_exc), by article.download() (download_exc), by article.parse()
\* (parse_exc), while cleaning the data (clean_exc), or none (parsed)
PrimaryOutcomes ==
    { [kind |-> k, article |-> NoArticle] : k \in {"outer_exc", "download_exc", "parse_exc"} }
    \cup { [kind |-> k, article |-> a] : k \in {"parsed", "clean_exc"}, a \in Articles }

BasePage ==
    [title_tags |-> << <<"Headline", " ", "Headline", " ", "|", " ", "Title">> >>,
     meta_titles |-> << <<>>, <<>>, <<>> >>,
     h1s |-> <<>>,
     selected |-> <<>>,
     paragraphs |-> <<>>,
     divs |-> <<>>,
     body |-> <<>>,
     bylines |-> <<>>,
     meta_authors |-> <<"", "">>,
     date_metas |-> <<"", "", "">>,
     time_attrs |-> <<>>,
     jsonld |-> <<>>]

\* text of the whole document when no container holds the article
PageBodies ==
    { <<>>,
      <<"Q50">>,                                              \* 50 words
      <<"Q50", " ", "reading">>,                              \* 51 words
      Q2,                                                     \* 100 words
      <<"Q50", " ", "continue", "/", "reading">>,             \* 52 words
      <<"Q50", " ", "spon", "continue", "/", "reading", "sored">>,
      <<"S100">>,                                             \* 1 word
      Q2 \o <<" ", "spon", "sored">> }                        \* 0 cleaned

Pages ==
    { [BasePage EXCEPT !.body = b] : b \in PageBodies }
    \cup { [BasePage EXCEPT !.selected = << <<"Q50">>, Q2 \o <<" ", "reading">> >>,
                            !.body = Q2 \o <<" ", "reading">>],
           [BasePage EXCEPT !.paragraphs = <<Q2, <<"reading">> >>,
                            !.body = Q2 \o <<" ", "reading">>],
           [BasePage EXCEPT !.divs = << Q2, Q2 \o <<" ">> \o Q2 \o <<" ", "reading">> >>,
                            !.body = Q2 \o <<" ">> \o Q2 \o <<" ", "reading">>],
           [BasePage EXCEPT !.title_tags = <<>>, !.h1s = << <<"Title">> >>,
                            !.bylines = <<"Jane Doe", "Staff", "Jane Doe">>,
                            !.meta_authors = <<" Jane Doe ", "John Roe">>,
                            !.date_metas = <<"", "soon", "2024-08-12">>,
                            !.body = Paragraphs(5)],
           [BasePage EXCEPT !.title_tags = <<>>,
                            !.meta_titles = << <<>>, <<" ", "Title">>, <<>> >>,
                            !.bylines = <<"A100">>,
                            !.meta_authors = <<"A100", "Editor">>,
                            !.time_attrs = <<"", "soon">>,
                            !.jsonld = << [valid |-> FALSE, dates |-> <<>>],
                                          [valid |-> TRUE, dates |-> <<"", "2024-08-13T10:00:00Z">>] >>,
                            !.body = Q2],
           [BasePage EXCEPT !.bylines = <<"Jane Doe", "John Roe", "Ann Lee", "Bob Ray">>,
                            !.meta_authors = <<" Cy Dunn", "Di Fox">>,
                            !.body = Q2] }

\* what lines 98-144 do: a requests.exceptions.RequestException raised by
\* the GET (request_exc), any other exception (other_exc), an exception
\* while cleaning the data (clean_exc), or none (page)
FallbackOutcomes ==
    { [kind |-> "request_exc", detail |-> "ReadTimeout", page |-> BasePage],
      [kind |-> "request_exc", detail |-> "404 Client Error", page |-> BasePage],
      [kind |-> "other_exc", detail |-> "ParserRejectedMarkup", page |-> BasePage] }
    \cup { [kind |-> k, detail |-> "TypeError", page |-> p] :
              k \in {"page", "clean_exc"}, p \in Pages }

----------------------------------------------------------------------------
(* Resolver harness: a document is fetched, lines 103-123 remove the       *)
(* unwanted elements, then line 126 resolves its title and line 133 its     *)
(* publish date                                                             *)

\* text of the <title> element
TitleTexts ==
    { <<"Breaking:", " ", "Foo", " ", "Announces", " ", "Bar", " ", "|", " ", "ExampleNews">>,
      <<"Headline", " ", "Headline", " ", "-", " ", "Title">>,
      <<"Headline", " ", "-", " ", "Headline", " ", "Headline", " ", "|", " ", "Title">>,
      <<"Headline", "-", "Headline", " ", "Headline", " ", "|", " ", "Title">>,
      <<"Headline", " ", "-", " ", "Title">>,
      <<"\n", " ", "Headline", " ", "Headline", "\n">>,
      <<"Headline", " ", "Ti", "|", " ", "Title">>,
      <<"Headline", " ", "T", " ", "|", " ", "Title">>,
      <<"Title">>,
      <<>> }

\* the <title> elements of a document
TitleTagLists ==
    {<<>>} \cup {<<t>> : t \in TitleTexts}
    \cup { << <<"Title">>, <<"Headline", " ", "Headline">> >> }

\* content of the og:title, twitter:title and title metas
MetaTitleLists ==
    { << <<>>, <<>>, <<>> >>,
      << <<"Title">>, <<>>, <<>> >>,
      << <<>>, <<" ", "Title", " ">>, <<"Headline", " ", "Headline">> >>,
      << <<>>, <<>>, <<" ">> >> }

\* the <h1> elements of a document
H1Lists ==
    { <<>>,
      << <<>> >>,
      << <<"Title">> >>,
      << <<"Headline", " ", "Ti">> >>,
      << <<" ", "Headline", " ", "T", "\n">> >>,
      << <<"Title">>, <<"Headline", " ", "Headline">> >> }

\* content of a date meta, datetime attribute, or datePublished value
DateValues == {"", "soon", "2024-08-12", "2024-08-13T10:00:00Z"}

\* datetime attributes of the <time> elements
TimeAttrLists == { <<>>, <<"">>, <<"soon", "2024-08-12">>, <<"2024-08-13T10:00:00Z">> }

\* the application/ld+json scripts of the fetched document
JsonLdLists ==
    { <<>>,
      << [valid |-> TRUE, dates |-> <<"2024-08-13T10:00:00Z">>] >>,
      << [valid |-> FALSE, dates |-> <<>>],
         [valid |-> TRUE, dates |-> <<"", "2024-08-12">>] >>,
      << [valid |-> TRUE, dates |-> <<"soon", "2024-08-12">>],
         [valid |-> TRUE, dates |-> <<"2024-08-13T10:00:00Z">>] >>,
      << [valid |-> TRUE, dates |-> <<"">>] >> }

Documents ==
    { [BasePage EXCEPT !.title_tags = tt, !.meta_titles = mt, !.h1s = h] :
         tt \in TitleTagLists, mt \in MetaTitleLists, h \in H1Lists }
    \cup { [BasePage EXCEPT !.date_metas = dm, !.time_attrs = ta, !.jsonld = jl] :
              dm \in [1..3 -> DateValues \ {"2024-08-13T10:00:00Z"}],
              ta \in TimeAttrLists, jl \in JsonLdLists }

InitResolve ==
    /\ document \in Documents
    /\ titleOut = <<>>
    /\ dateOut = <<>>
    /\ ExtractIdle
    /\ CleanIdle
    /\ ScoreIdle
    /\ ConcIdle
    /\ StatsIdle
    /\ ContentIdle
    /\ AppIdle
    /\ SumIdle

\* lines 103-126: title = self._extract_title(soup)
ResolveTitle ==
    /\ titleOut = <<>>
    /\ titleOut' = <<ExtractTitle(DecomposeUnwanted(document))>>
    /\ UNCHANGED <<document, dateOut, besideSoup>>

\* lines 103-133: publish_date = self._extract_publish_date(soup)
ResolveDate ==
    /\ dateOut = <<>>
    /\ dateOut' = <<ExtractPublishDate(DecomposeUnwanted(document))>>
    /\ UNCHANGED <<document, titleOut, besideSoup>>

NextResolve == ResolveTitle \/ ResolveDate

SpecResolve == InitResolve /\ [][NextResolve]_vars

----------------------------------------------------------------------------
(* _fallback_extraction, scraper.py lines 94-152 *)

Returned(value) == [raised |-> FALSE, value |-> value]
Raised == [raised |-> TRUE, value |-> [pending |-> TRUE]]

\* lines 149-150 without the except clause of lines 151-152
FallbackHandlerNarrow(kind, detail) ==
    IF kind = "request_exc"
    THEN Returned([error |-> <<"Network error during fallback extraction: ", detail>>])
    ELSE Raised

\* lines 149-152 with the one message of line 152 for every exception
FallbackHandlerUnclassified(kind, detail) ==
    Returned([error |-> <<"Fallback extraction failed: ", detail>>])

\* the except clauses of lines 149-152
FallbackHandler(kind, detail) ==
    IF kind = "request_exc"
    THEN Returned([error |-> <<"Network error during fallback extraction: ", detail>>])
    ELSE Returned([error |-> <<"Fallback extraction failed: ", detail>>])

\* 'extraction_method' of line 143 with the value of line 74
FallbackMethodPrimary == "newspaper3k"

\* 'extraction_method' of the dict of lines 136-144
FallbackMethod == "fallback_beautifulsoup"

\* the test of line 135 with the floor of line 77
ContentGateHundred(text) == text # <<>> /\ WordCount(text) >= 100

\* the test of line 135: text and len(text.split()) > 50
ContentGate(text) == text # <<>> /\ WordCount(text) > 50

\* lines 103-147 on a page; authors is the list _extract_authors returned
FallbackBody(u, o, authors, now) ==
    LET soup == DecomposeUnwanted(o.page)
        title == ExtractTitle(soup)
        text == ExtractContent(soup)
        publish_date == ExtractPublishDate(soup)
    IN IF ContentGate(text)
       THEN (IF o.kind = "clean_exc" THEN FallbackHandler("other_exc", o.detail)
             ELSE Returned(ValidateAndCleanData(
                     [title |-> title, text |-> text, authors |-> authors,
                      publish_date |-> publish_date, source_url |-> u,
                      word_count |-> WordCount(text),
                      extraction_method |-> FallbackMethod], now)))
       ELSE Returned([error |-> <<"Insufficient content extracted. Only ",
                                  ToString(IF text # <<>> THEN WordCount(text) ELSE 0),
                                  " words found.">>])

\* _fallback_extraction(url)
FallbackExtractionResult(u, o, authors, now) ==
    IF o.kind \in {"request_exc", "other_exc"} THEN FallbackHandler(o.kind, o.detail)
    ELSE FallbackBody(u, o, authors, now)

----------------------------------------------------------------------------
(* extract_article, scraper.py lines 46-92 *)

NoResult == [pending |-> TRUE]

\* lines 77-81 returning the data whatever its word count
FloorCheckNone(cleaned_data) == [line |-> 78, value |-> cleaned_data]

\* lines 77-81 returning at line 81 without the value of the fallback
FloorCheckNoReturn(cleaned_data) ==
    IF cleaned_data.word_count >= 100
    THEN [line |-> 78, value |-> cleaned_data]
    ELSE [line |-> 78, value |-> NoResult]

\* lines 77-81
FloorCheck(cleaned_data) ==
    IF cleaned_data.word_count >= 100
    THEN [line |-> 78, value |-> cleaned_data]
    ELSE [line |-> 81, value |-> NoResult]

\* lines 82-84 returning an error instead of calling the fallback
ShortContentFatal ==
    [line |-> 78, value |-> [error |-> <<"Primary extraction returned insufficient content">>]]

\* lines 82-84
ShortContent == [line |-> 84, value |-> NoResult]

\* lines 53-92 up to the return or the call of _fallback_extraction:
\* [line |-> the line reached, value |-> the value returned at line 78]
PrimaryResult(u, o, now) ==
    IF o.kind = "outer_exc" THEN [line |-> 92, value |-> NoResult]
    ELSE IF o.kind \in {"download_exc", "parse_exc"} THEN [line |-> 88, value |-> NoResult]
    ELSE IF o.article.text # <<>> /\ WordCount(o.article.text) > 50
         THEN (IF o.kind = "clean_exc" THEN [line |-> 88, value |-> NoResult]
               ELSE LET cleaned_data ==
                          ValidateAndCleanData(
                             [title |-> o.article.title, text |-> o.article.text,
                              authors |-> o.article.authors,
                              publish_date |-> o.article.publish_date,
                              source_url |-> u,
                              word_count |-> WordCount(o.article.text),
                              extraction_method |-> "newspaper3k"], now)
                    IN FloorCheck(cleaned_data))
         ELSE ShortContent

Init == ExtractIdle /\ CleanIdle /\ ScoreIdle /\ SoupIdle /\ ConcIdle /\ StatsIdle
        /\ ContentIdle /\ AppIdle /\ SumIdle

\* extractor.extract_article(u) is called, on a new extractor or after an
\* earlier call returned
Call(u) ==
    /\ pc \in {"idle", "returned"}
    /\ pc' = "validate"
    /\ url' = u
    /\ validation' = [is_valid |-> FALSE, message |-> <<>>]
    /\ primary' = [kind |-> "none"]
    /\ fallback' = [kind |-> "none"]
    /\ via' = 0
    /\ result' = NoResult
    /\ escaped' = FALSE
    /\ heads' = 0
    /\ downloads' = 0
    /\ fallbackCalls' = 0
    /\ response' = [kind |-> "none"]
    /\ UNCHANGED besideExtract

\* lines 49-51 without the return of line 51
ValidateNoGate ==
    /\ pc = "validate"
    /\ \E head \in HeadOutcomes :
          /\ validation' = ValidateUrl(url, head)
          /\ heads' = heads + (IF UrlSyntaxOk(url) THEN 1 ELSE 0)
          /\ response' = (IF UrlSyntaxOk(url) THEN head ELSE response)
          /\ pc' = "primary"
    /\ UNCHANGED <<url, primary, fallback, via, result, escaped, downloads,
                   fallbackCalls, besideExtract>>

\* lines 49-51
Validate ==
    /\ pc = "validate"
    /\ \E head \in HeadOutcomes :
          LET v == ValidateUrl(url, head)
          IN /\ validation' = v
             /\ heads' = heads + (IF UrlSyntaxOk(url) THEN 1 ELSE 0)
             /\ response' = (IF UrlSyntaxOk(url) THEN head ELSE response)
             /\ IF ~v.is_valid
                THEN /\ result' = [error |-> <<"URL validation failed: ">> \o v.message]
                     /\ pc' = "done"
                ELSE /\ result' = result
                     /\ pc' = "primary"
    /\ UNCHANGED <<url, primary, fallback, via, escaped, downloads,
                   fallbackCalls, besideExtract>>

\* lines 53-92 up to the return or the call of _fallback_extraction
PrimaryAttempt ==
    /\ pc = "primary"
    /\ \E o \in PrimaryOutcomes, now \in Timestamps :
          LET r == PrimaryResult(url, o, now)
          IN /\ primary' = o
             /\ downloads' = downloads + (IF o.kind = "outer_exc" THEN 0 ELSE 1)
             /\ IF r.line = 78
                THEN /\ result' = r.value
                     /\ pc' = "done"
                     /\ via' = via
                ELSE /\ result' = result
                     /\ pc' = "fallback"
                     /\ via' = r.line
    /\ UNCHANGED <<url, validation, fallback, escaped, heads, fallbackCalls,
                   response, besideExtract>>

\* return self._fallback_extraction(url) at line via; an exception of the
\* call at line 81 or 84 is caught at line 86, one of the call at line 88
\* is caught at line 90, one of the call at line 92 leaves extract_article
FallbackExtraction ==
    /\ pc = "fallback"
    /\ \E o \in FallbackOutcomes, now \in Timestamps :
       \E authors \in ExtractAuthors(DecomposeUnwanted(o.page)) :
          LET r == FallbackExtractionResult(url, o, authors, now)
          IN /\ fallback' = o
             /\ fallbackCalls' = fallbackCalls + 1
             /\ IF ~r.raised
                THEN /\ result' = r.value
                     /\ pc' = "done"
                     /\ UNCHANGED <<via, escaped>>
                ELSE /\ result' = result
                     /\ IF via = 92
                        THEN pc' = "done" /\ escaped' = TRUE /\ via' = via
                        ELSE /\ pc' = "fallback"
                             /\ escaped' = escaped
                             /\ via' = (IF via = 88 THEN 92 ELSE 88)
    /\ UNCHANGED <<url, validation, primary, heads, downloads, response,
                   besideExtract>>

\* extract_article returns result to its caller
Return ==
    /\ pc = "done"
    /\ pc' = "returned"
    /\ UNCHANGED <<url, validation, primary, fallback, via, result, escaped,
                   heads, downloads, fallbackCalls, response, besideExtract>>

Next ==
    \/ \E u \in Urls : Call(u)
    \/ Validate
    \/ PrimaryAttempt
    \/ FallbackExtraction
    \/ Return

Spec == Init /\ [][Next]_vars

----------------------------------------------------------------------------
(* Concurrent calls: every task calls extract_article once on the shared   *)
(* NewsExtractor.  The parameters and local variables of a call (url,      *)
(* is_valid, message, article, cleaned_data, soup, ...) belong to the      *)
(* call; self.session, through which lines 38 and 98 send their requests,  *)
(* and self.config belong to the extractor.                                *)

\* what the HEAD request of a call does
ConcHeads ==
    { [kind |-> "status", detail |-> "200"],
      [kind |-> "exception", detail |-> "ConnectTimeout"] }

\* what the primary attempt of a call does
ConcPrimary ==
    { [kind |-> "download_exc", article |-> NoArticle],
      [kind |-> "parsed", article |-> Article(LongTitle, <<"Q50", " ", "reading">>, <<"Jane Doe">>, "None")],
      [kind |-> "parsed", article |-> Article(LongTitle, Q2, <<"Jane Doe">>, "None")] }

\* what the fallback fetch of a call does
ConcFallback ==
    { [kind |-> "request_exc", detail |-> "ReadTimeout", page |-> BasePage],
      [kind |-> "page", detail |-> "TypeError", page |-> [BasePage EXCEPT !.body = <<"Q50">>]],
      [kind |-> "page", detail |-> "TypeError",
       page |-> [BasePage EXCEPT !.body = Q2, !.bylines = <<"Jane Doe", "John Roe">>]] }

\* the url of a call taken from the session instead of the parameter
CallUrlShared(t) == IF sessionLog = <<>> THEN calls[t].url ELSE sessionLog[1]

\* the parameter url of the call of task t
CallUrl(t) == calls[t].url

\* task t calls extractor.extract_article(u)
TaskCall(t, u) ==
    /\ calls[t].pc = "idle"
    /\ calls' = [calls EXCEPT ![t] = [NoCall EXCEPT !.pc = "validate", !.url = u]]
    /\ UNCHANGED <<sessionLog, besideConc>>

\* lines 49-51 in task t
TaskValidate(t) ==
    /\ calls[t].pc = "validate"
    /\ \E head \in ConcHeads :
          LET u == CallUrl(t)
              v == ValidateUrl(u, head)
          IN /\ sessionLog' = (IF UrlSyntaxOk(u) THEN Append(sessionLog, u) ELSE sessionLog)
             /\ calls' = [calls EXCEPT
                   ![t].head = (IF UrlSyntaxOk(u) THEN head ELSE @),
                   ![t].pc = (IF v.is_valid THEN "primary" ELSE "done"),
                   ![t].result = (IF v.is_valid THEN @
                                  ELSE [error |-> <<"URL validation failed: ">> \o v.message])]
    /\ UNCHANGED besideConc

\* lines 53-92 in task t, up to the return or the call of the fallback
TaskPrimary(t) ==
    /\ calls[t].pc = "primary"
    /\ \E o \in ConcPrimary, now \in Timestamps :
          LET r == PrimaryResult(CallUrl(t), o, now)
          IN calls' = [calls EXCEPT
                ![t].primary = o,
                ![t].now = now,
                ![t].pc = (IF r.line = 78 THEN "done" ELSE "fallback"),
                ![t].result = (IF r.line = 78 THEN r.value ELSE @)]
    /\ UNCHANGED <<sessionLog, besideConc>>

\* return self._fallback_extraction(url) in task t
TaskFallback(t) ==
    /\ calls[t].pc = "fallback"
    /\ \E o \in ConcFallback, now \in Timestamps :
       \E authors \in ExtractAuthors(DecomposeUnwanted(o.page)) :
          /\ sessionLog' = Append(sessionLog, CallUrl(t))
          /\ calls' = [calls EXCEPT
                ![t].fallback = o,
                ![t].authors = authors,
                ![t].now = now,
                ![t].pc = "done",
                ![t].result = FallbackExtractionResult(CallUrl(t), o, authors, now).value]
    /\ UNCHANGED besideConc

\* extract_article returns in task t
TaskReturn(t) ==
    /\ calls[t].pc = "done"
    /\ calls' = [calls EXCEPT ![t].pc = "returned"]
    /\ UNCHANGED <<sessionLog, besideConc>>

NextConc ==
    \E t \in Tasks :
       \/ \E u \in Urls : TaskCall(t, u)
       \/ TaskValidate(t)
       \/ TaskPrimary(t)
       \/ TaskFallback(t)
       \/ TaskReturn(t)

SpecConc == Init /\ [][NextConc]_vars

----------------------------------------------------------------------------
(* get_article_stats, scraper.py lines 440-472 *)

\* the count as it is, without the floor of 1
MaxSecond(a, b) == b

\* max(a, b)
Max(a, b) == IF a > b THEN a ELSE b

\* round(n / d): the nearest integer, the even one of two equally near
RoundHalfEven(n, d) ==
    LET q == n \div d
        r == n % d
    IN IF 2 * r < d THEN q
       ELSE IF 2 * r > d THEN q + 1
       ELSE IF q % 2 = 0 THEN q ELSE q + 1

\* round(n / d, 1) in tenths; when n / d lies halfway between two tenths
\* Python decides by the binary value of the quotient, which no text of
\* StatsTexts makes happen
AverageTenths(n, d) == RoundHalfEven(10 * n, d)

\* line 451: the segments between terminators longer than 5 characters
StatsSentences(text) == SentenceFold(text, 0, 0, 0, 5)

\* line 454: the lines longer than 10 characters
StatsParagraphs(text) ==
    IF text = <<>> THEN 0
    ELSE Cardinality({i \in 1..Len(SplitLines(text)) :
                         CharLen(Strip(SplitLines(text)[i])) > 10})

\* line 457 reading the stored count instead of counting the words
StatsWordCountStored(article_data, text) == article_data.word_count

\* line 457
StatsWordCount(article_data, text) == WordCount(text)

\* article_data.get(key, default)
Get(article_data, key, default) ==
    IF key \in DOMAIN article_data THEN article_data[key] ELSE default

\* get_article_stats(article_data); the averages are in tenths, and a
\* division by zero would leave the method as ZeroDivisionError
GetArticleStats(article_data) ==
    LET text == Get(article_data, "text", <<>>)
        sentences == StatsSentences(text)
        paragraphs == StatsParagraphs(text)
    IN IF "error" \in DOMAIN article_data
       THEN [error |-> article_data.error]
       ELSE IF Max(1, sentences) = 0 \/ Max(1, paragraphs) = 0
       THEN [raised |-> "ZeroDivisionError"]
       ELSE
       [word_count |-> StatsWordCount(article_data, text),
        character_count |-> CharLen(text),
        sentence_count |-> sentences,
        paragraph_count |-> Max(1, paragraphs),
        estimated_reading_time |-> Max(1, RoundHalfEven(WordCount(text), 200)),
        quality_score |-> Get(article_data, "quality_score", 0),
        extraction_method |-> Get(article_data, "extraction_method", "unknown"),
        has_authors |-> Get(article_data, "authors", <<>>) # <<>>,
        has_date |-> Get(article_data, "publish_date", "None") # "None",
        title_length |-> CharLen(Get(article_data, "title", <<>>)),
        extracted_at |-> Get(article_data, "extracted_at", "None"),
        average_sentence_length |-> AverageTenths(WordCount(text), Max(1, sentences)),
        average_paragraph_length |-> AverageTenths(WordCount(text), Max(1, paragraphs))]

\* the text of a record
StatsTexts ==
    { <<"Title">>,
      <<"Headline">>,
      <<"Q50">>,
      <<"Q50", "\n", "Q50">>,
      <<"Q50", ".", "\n", "Headline", "!", "\n", "Title">>,
      <<"Q50", " ", "Headline", " ", "Headline", "\n", "\n", "W100", ".">> }
    \cup { Paragraphs(n) : n \in 1..MaxParas }

\* the other fields of a record
StatsOthers ==
    { [title |-> LongTitle, authors |-> <<"Jane Doe">>, publish_date |-> "None",
       word_count |-> 1200, quality_score |-> 100,
       extraction_method |-> "newspaper3k", extracted_at |-> "2026-01-01 09:00:00"],
      [title |-> <<"Title">>, authors |-> <<>>, publish_date |-> "datetime(2024, 8, 12, 0, 0)",
       word_count |-> 51, quality_score |-> 45,
       extraction_method |-> "fallback_beautifulsoup", extracted_at |-> "2026-01-01 09:00:01"] }

StatsRecords ==
    { [title |-> o.title, text |-> t, authors |-> o.authors,
       publish_date |-> o.publish_date, source_url |-> "https://news.example/a",
       word_count |-> o.word_count, extraction_method |-> o.extraction_method,
       extracted_at |-> o.extracted_at, quality_score |-> o.quality_score] :
         t \in StatsTexts, o \in StatsOthers }

\* two records are given to get_article_stats, one after the other
InitStats ==
    /\ statsIn \in StatsRecords \X StatsRecords
    /\ statsOut = <<>>
    /\ ExtractIdle
    /\ CleanIdle
    /\ ScoreIdle
    /\ SoupIdle
    /\ ConcIdle
    /\ ContentIdle
    /\ AppIdle
    /\ SumIdle

\* stats = extractor.get_article_stats(record) for the next record; the
\* method reads article_data and assigns to none of its keys
Stats ==
    /\ Len(statsOut) < 2
    /\ statsOut' = Append(statsOut, GetArticleStats(statsIn[Len(statsOut) + 1]))
    /\ UNCHANGED <<statsIn, besideStats>>

\* the texts without a word, a sentence or a paragraph, and two others
SparseTexts ==
    { <<>>, <<" ", "\n">>, <<"Title">>, <<"Title", ".", "\n", "Headline">>,
      <<"Q50">>, Paragraphs(1) }

\* the dicts given to get_article_stats: error results of extract_article
\* (lines 51, 78, 147-152), one of them with a text beside the error, two
\* dicts that lack keys the method reads with .get, and records
TotalInputs ==
    { [error |-> <<"URL validation failed: ", "Invalid URL format">>],
      [error |-> <<"Primary extraction returned insufficient content">>],
      [error |-> <<"Insufficient content extracted. Only ", "0", " words found.">>,
       text |-> <<"Q50">>],
      [source_url |-> "https://news.example/a"],
      [text |-> <<"Q50">>, title |-> <<"Title">>] }
    \cup { [title |-> o.title, text |-> t, authors |-> o.authors,
             publish_date |-> o.publish_date, source_url |-> "https://news.example/a",
             word_count |-> o.word_count, extraction_method |-> o.extraction_method,
             extracted_at |-> o.extracted_at, quality_score |-> o.quality_score] :
               t \in SparseTexts, o \in StatsOthers }

\* two results of any kind are given to get_article_stats
InitStatsTotal ==
    /\ statsIn \in TotalInputs \X TotalInputs
    /\ statsOut = <<>>
    /\ ExtractIdle
    /\ CleanIdle
    /\ ScoreIdle
    /\ SoupIdle
    /\ ConcIdle
    /\ ContentIdle
    /\ AppIdle
    /\ SumIdle

NextStats == Stats

SpecStats == InitStats /\ [][NextStats]_vars

SpecStatsTotal == InitStatsTotal /\ [][NextStats]_vars

----------------------------------------------------------------------------
(* Properties of extract_article *)

RecordFields ==
    {"title", "text", "authors", "publish_date", "source_url", "word_count",
     "extraction_method", "extracted_at", "quality_score"}

\* 'error' in result, and no field of a record
IsError(r) == "error" \in DOMAIN r /\ DOMAIN r \cap RecordFields = {}

\* a record: every field, and no 'error'
IsRecord(r) == RecordFields \subseteq DOMAIN r /\ "error" \notin DOMAIN r

\* extract_article has returned
Finished == pc \in {"done", "returned"}

\* the values _fallback_extraction can have returned from what the fetch did
FallbackValues ==
    {FallbackExtractionResult(url, fallback, a, now).value :
        a \in ExtractAuthors(DecomposeUnwanted(fallback.page)), now \in Timestamps}

\* the primary attempt threw, gave no text, or gave 50 words or fewer
PrimaryFailed ==
    \/ primary.kind \in {"outer_exc", "download_exc", "parse_exc", "clean_exc"}
    \/ /\ primary.kind = "parsed"
       /\ \/ primary.article.text = <<>>
          \/ WordCount(primary.article.text) <= 50

\* C1: whatever the validator, the primary attempt and the fallback do, no
\* exception leaves extract_article, and what it returns is either an error
\* (with 'error' and no field of a record) or a record (without 'error'),
\* never both and never nothing.  The call terminates: each of its three
\* steps is pending only before it has run, so no step is taken twice.
C1_ExactlyOneResult ==
    /\ ~escaped
    /\ pc = "validate" => heads = 0
    /\ pc = "primary" => primary.kind = "none"
    /\ pc = "fallback" => fallback.kind = "none" /\ fallbackCalls = 0
    /\ Finished => /\ IsError(result) \/ IsRecord(result)
                   /\ ~(IsError(result) /\ IsRecord(result))
                   /\ "pending" \notin DOMAIN result

\* the fallback raised an exception that is no RequestException, and the
\* call still returned an error
C1_Witness ==
    /\ pc = "done"
    /\ fallback.kind = "other_exc"
    /\ IsError(result)
    /\ ~escaped

\* C2: no download and no fallback fetch happens before validate_url said
\* the URL is valid; when it said invalid, the call ends in the error
\* "URL validation failed: " followed by the validator's message, with no
\* download and no fallback fetch.
C2_ValidationFirst ==
    /\ (downloads > 0 \/ fallbackCalls > 0 \/ pc \in {"primary", "fallback"})
          => validation.is_valid
    /\ (Finished /\ ~validation.is_valid)
          => /\ result = [error |-> <<"URL validation failed: ">> \o validation.message]
             /\ validation.message # <<>>
             /\ downloads = 0
             /\ fallbackCalls = 0

\* the probe answered 404: the error names the status, nothing was extracted
C2_Witness ==
    /\ pc = "done"
    /\ heads = 1
    /\ validation = [is_valid |-> FALSE, message |-> <<"HTTP ", "404", " error">>]
    /\ result.error = <<"URL validation failed: ", "HTTP ", "404", " error">>
    /\ downloads = 0
    /\ fallbackCalls = 0

\* C3: every record extract_article returns, from the primary or from the
\* fallback path, has a word_count of at least 100.
C3_RecordsHaveHundredWords ==
    (Finished /\ IsRecord(result)) => result.word_count >= 100

\* C4: when the URL is valid and the primary attempt threw, gave no text or
\* gave 50 words or fewer, the fallback was invoked and the call returns what
\* the fallback returned; an error of a valid URL always comes from the
\* fallback.
C4_PrimaryFailureNotFatal ==
    /\ (Finished /\ validation.is_valid /\ PrimaryFailed)
          => /\ fallbackCalls = 1
             /\ result \in FallbackValues
    /\ (Finished /\ validation.is_valid /\ IsError(result))
          => /\ fallbackCalls = 1
             /\ result \in FallbackValues

\* the download threw and the call returned the record of the fallback
C4_Witness ==
    /\ pc = "done"
    /\ primary.kind = "download_exc"
    /\ fallbackCalls = 1
    /\ IsRecord(result)
    /\ result.extraction_method = "fallback_beautifulsoup"

\* C5: for a parsed article the primary record is returned exactly when the
\* raw text has more than 50 words and the cleaned text at least 100; with
\* more than 50 raw words and fewer than 100 cleaned words the call goes to
\* the fallback from line 81.
C5_TwoGates ==
    (Finished /\ primary.kind = "parsed")
       => LET raw == WordCount(primary.article.text)
              cleaned == WordCount(CleanExtractedText(primary.article.text))
              byPrimary == /\ IsRecord(result)
                           /\ result.extraction_method = "newspaper3k"
                           /\ fallbackCalls = 0
          IN /\ byPrimary <=> (raw > 50 /\ cleaned >= 100)
             /\ (raw > 50 /\ cleaned < 100) => (fallbackCalls = 1 /\ via = 81)
             /\ raw <= 50 => (fallbackCalls = 1 /\ via = 84)

\* 51 raw words passed the first gate, 51 cleaned words failed the second
C5_Witness ==
    /\ pc = "done"
    /\ primary.kind = "parsed"
    /\ primary.article.text = <<"Q50", " ", "reading">>
    /\ via = 81
    /\ fallbackCalls = 1

\* C6: within one call there is at most one download and at most one
\* invocation of the fallback, and once the fallback was invoked the call
\* is over and returns what that invocation returned.
C6_FallbackOnce ==
    /\ downloads <= 1
    /\ fallbackCalls <= 1
    /\ fallbackCalls = 1 => (Finished /\ result \in FallbackValues)

\* the fallback, called from the inner handler, failed: its error is returned
C6_Witness ==
    /\ pc = "done"
    /\ via = 88
    /\ fallbackCalls = 1
    /\ fallback.kind = "request_exc"
    /\ result = [error |-> <<"Network error during fallback extraction: ", fallback.detail>>]

\* C7: on every returned record word_count is the number of words of the
\* record's text.
C7_WordCountOfCleanedText ==
    (Finished /\ IsRecord(result)) => result.word_count = WordCount(result.text)

\* a primary record whose raw text had 102 words and whose text has 100
C7_Witness ==
    /\ pc = "done"
    /\ IsRecord(result)
    /\ result.extraction_method = "newspaper3k"
    /\ WordCount(primary.article.text) = 102
    /\ result.word_count = 100

----------------------------------------------------------------------------
(* Properties of _calculate_quality_score *)

\* C8: the score is between 0 and 100 and equals the sum of the components:
\* the cap of line 438 changes nothing.
C8_ScoreInRange ==
    scoreOut # -1 => (scoreOut \in 0..100 /\ scoreOut = ScoreSum(scoreIn))

\* every component at its maximum
C8_Witness ==
    /\ scoreOut = 100
    /\ scoreIn.word_count > 1000
    /\ SentenceCount(scoreIn.text) > 20

\* the word count component of the table
TableWordPoints(n) ==
    CASE n > 1000 -> 40
      [] n <= 1000 /\ n > 500 -> 35
      [] n <= 500 /\ n > 300 -> 30
      [] n <= 300 /\ n > 200 -> 25
      [] n <= 200 /\ n > 100 -> 20
      [] OTHER -> 10

\* the sentence density component of the table
TableSentencePoints(n) ==
    CASE n > 20 -> 20
      [] n <= 20 /\ n > 10 -> 15
      [] n <= 10 /\ n > 5 -> 10
      [] OTHER -> 0

\* C9: the score is the sum of the components of the table, the title
\* component being 0, 10, 15 or 20; an article of 1200 words with a title of
\* more than 20 characters, one author, a publish date and 25 sentences
\* scores 100.
C9_ScoreTable ==
    scoreOut # -1 =>
       /\ scoreOut - ( TableWordPoints(scoreIn.word_count)
                       + (IF Len(scoreIn.authors) >= 1 THEN 10 ELSE 0)
                       + (IF scoreIn.publish_date # "None" THEN 10 ELSE 0)
                       + TableSentencePoints(SentenceCount(scoreIn.text)) )
             \in {0, 10, 15, 20}
       /\ ( /\ scoreIn.word_count = 1200
            /\ CharLen(scoreIn.title) > 20
            /\ Len(scoreIn.authors) = 1
            /\ scoreIn.publish_date # "None"
            /\ SentenceCount(scoreIn.text) = 25 ) => scoreOut = 100

----------------------------------------------------------------------------
(* Properties of _clean_extracted_text *)

\* C10: cleaning a cleaned text changes nothing:
\* _clean_extracted_text(_clean_extracted_text(x)) = _clean_extracted_text(x).
C10_CleanerIdempotent ==
    Len(cleanOut) = 2 => cleanOut[2] = cleanOut[1]

----------------------------------------------------------------------------
(* Properties of the resolvers *)

\* the result of the title-tag strategy (lines 157-162), <<>> without a tag
TitleTagResult(page) ==
    IF page.title_tags = <<>> THEN <<>>
    ELSE StripSuffix("-", StripSuffix("|", Strip(page.title_tags[1])))

\* a title resolved by the rule 'first non-trivial result wins': the title
\* tag and the first heading count only above 10 characters, the first meta
\* tag with content counts at any length
FirstNonTrivialTitle(page) ==
    LET metas == {i \in 1..Len(page.meta_titles) : page.meta_titles[i] # <<>>}
        heading == IF page.h1s = <<>> THEN <<>> ELSE Strip(page.h1s[1])
    IN IF CharLen(TitleTagResult(page)) > 10 THEN TitleTagResult(page)
       ELSE IF metas # {} THEN Strip(page.meta_titles[SetMin(metas)])
       ELSE IF CharLen(heading) > 10 THEN heading
       ELSE NotFoundTitle

\* C11: the resolved title is the first non-trivial result in the order
\* title tag, meta tags, first heading (tag and heading only when longer
\* than 10 characters, a meta tag at any non-empty length), and the sentinel
\* "Title not found" when there is none.
C11_FirstNonTrivialTitle ==
    titleOut # <<>> => titleOut[1] = FirstNonTrivialTitle(document)

\* the positions of the separators '|' and '-' that stand after a blank
SuffixStarts(t) == {i \in 2..Len(t) : t[i] \in {"|", "-"} /\ t[i-1] = " "}

\* the title without its trailing '| Site' or '- Site'
BeforeSiteSuffix(t) ==
    IF SuffixStarts(t) = {} THEN t
    ELSE RStrip(SubSeq(t, 1, SetMax(SuffixStarts(t)) - 1))

\* C12: when the text of the title tag ends in a suffix "| Site" or
\* "- Site" and the headline before it is longer than 10 characters, the
\* resolved title is that headline, whole: only the trailing suffix is cut.
C12_OnlyTrailingSuffixCut ==
    (/\ titleOut # <<>>
     /\ document.title_tags # <<>>
     /\ SuffixStarts(Strip(document.title_tags[1])) # {}
     /\ CharLen(BeforeSiteSuffix(Strip(document.title_tags[1]))) > 10)
    => titleOut[1] = BeforeSiteSuffix(Strip(document.title_tags[1]))

\* C14: the resolved publish date is the first value that parses, in the
\* order article:published_time, publishdate, date, time elements, JSON-LD
\* blocks of the fetched document; a value that does not parse is skipped,
\* and without any parseable value the date is None.
C14_FirstParseableDate ==
    dateOut # <<>> => dateOut[1] = ExtractPublishDate(document)

----------------------------------------------------------------------------
(* Properties of the authors list *)

Placeholders == {"admin", "editor", "staff"}

\* C13: on every record extract_article returns, from either path, the
\* authors list has at most 5 entries and no duplicates, and every entry is
\* trimmed, shorter than 100 characters and no placeholder "staff", "editor"
\* or "admin" in any letter case.
C13_AuthorsClean ==
    (Finished /\ IsRecord(result)) =>
        /\ Len(result.authors) <= 5
        /\ \A i, j \in 1..Len(result.authors) :
              result.authors[i] = result.authors[j] => i = j
        /\ \A i \in 1..Len(result.authors) :
              /\ AuthorStrip(result.authors[i]) = result.authors[i]
              /\ AuthorLen(result.authors[i]) < 100
              /\ AuthorLower(result.authors[i]) \notin Placeholders

\* the fallback found six different names, one of them in a meta tag with a
\* blank before it, and the record carries five trimmed names
C13_Witness ==
    /\ pc = "done"
    /\ IsRecord(result)
    /\ result.extraction_method = "fallback_beautifulsoup"
    /\ " Cy Dunn" \in {fallback.page.meta_authors[i] : i \in 1..2}
    /\ Len(AuthorCandidates(fallback.page)) = 6
    /\ Len(result.authors) = 5

----------------------------------------------------------------------------
(* Properties of validate_url *)

\* validate_url has returned in the running call
Validated == pc \notin {"idle", "validate"}

\* C15: validate_url says valid exactly when the URL is well-formed and the
\* HEAD request answered 200; a malformed URL is rejected without a request;
\* after a request exception or another status the reason holds the
\* exception text or the status code.
C15_ValidIffHead200 ==
    Validated =>
        /\ validation.is_valid <=>
              (UrlSyntaxOk(url) /\ response = [kind |-> "status", detail |-> "200"])
        /\ ~UrlSyntaxOk(url) => (heads = 0 /\ response.kind = "none")
        /\ UrlSyntaxOk(url) => (heads = 1 /\ response.kind \in {"status", "exception"})
        /\ (UrlSyntaxOk(url) /\ ~validation.is_valid) =>
              \E i \in 1..Len(validation.message) : validation.message[i] = response.detail

\* the HEAD request of a well-formed URL was answered with a redirect, and
\* the URL was reported invalid with the status code in the reason
C15_Witness ==
    /\ Validated
    /\ UrlSyntaxOk(url)
    /\ response = [kind |-> "status", detail |-> "301"]
    /\ ~validation.is_valid
    /\ validation.message = <<"HTTP ", "301", " error">>

----------------------------------------------------------------------------
(* Properties of the cleaner on boilerplate sentences *)

SentenceWords == {"subscribe", "to", "our", "newsletter", "for", "more", "!"}

\* how often chunk c stands in text t
Occurrences(c, t) == Cardinality({i \in 1..Len(t) : t[i] = c})

\* C16: when a text holds 'Subscribe to our newsletter for more!' in any
\* letter case, nothing of that sentence is left in the cleaned text, and
\* the article text around it is kept.
C16_NewsletterSentenceRemoved ==
    (Len(cleanOut) >= 1 /\ cleanIn \in NewsletterTexts) =>
        /\ \A i \in 1..Len(cleanOut[1]) : Lower(cleanOut[1][i]) \notin SentenceWords
        /\ Occurrences("Q50", cleanOut[1]) = Occurrences("Q50", cleanIn)

----------------------------------------------------------------------------
(* Properties of concurrent calls *)

\* what extract_article returns when the call runs alone with the URL,
\* the responses, the clock reading and the set order that call c had
SequentialResult(c) ==
    LET v == ValidateUrl(c.url, c.head)
    IN IF ~v.is_valid THEN [error |-> <<"URL validation failed: ">> \o v.message]
       ELSE LET r == PrimaryResult(c.url, c.primary, c.now)
            IN IF r.line = 78 THEN r.value
               ELSE FallbackExtractionResult(c.url, c.fallback, c.authors, c.now).value

----------------------------------------------------------------------------
(* Properties of the error results *)

\* C18: an error result of extract_article holds nothing but a non-empty
\* cause that names the failure: the reason of the validator after a failed
\* validation, the network error after a request failure of the fallback
\* fetch, the word count after too little content, the exception text after
\* any other failure of the fallback; title, text and score are absent.
C18_ErrorsCarryCause ==
    (Finished /\ "error" \in DOMAIN result) =>
        /\ DOMAIN result = {"error"}
        /\ result.error # <<>> /\ result.error[1] # ""
        /\ ~validation.is_valid =>
              /\ result.error = <<"URL validation failed: ">> \o validation.message
              /\ validation.message # <<>>
        /\ validation.is_valid =>
              /\ fallbackCalls = 1
              /\ fallback.kind = "request_exc" =>
                    result.error = <<"Network error during fallback extraction: ",
                                     fallback.detail>>
              /\ fallback.kind = "other_exc" =>
                    result.error = <<"Fallback extraction failed: ", fallback.detail>>
              /\ fallback.kind = "page" =>
                    /\ Len(result.error) = 3
                    /\ result.error[1] = "Insufficient content extracted. Only "
                    /\ result.error[3] = " words found."
              /\ fallback.kind = "clean_exc" =>
                    \/ result.error = <<"Fallback extraction failed: ", fallback.detail>>
                    \/ result.error[1] = "Insufficient content extracted. Only "

\* the GET request of the fallback timed out and the call returned the
\* network error with the text of the exception
C18_Witness ==
    /\ pc = "done"
    /\ validation.is_valid
    /\ fallback.kind = "request_exc"
    /\ result = [error |-> <<"Network error during fallback extraction: ", "ReadTimeout">>]

----------------------------------------------------------------------------
(* Properties of get_article_stats *)

SevenStats ==
    {"word_count", "character_count", "sentence_count", "paragraph_count",
     "estimated_reading_time", "average_sentence_length", "average_paragraph_length"}

\* C19: the seven statistics depend on the text of the record only: two
\* records with the same text get the same seven values whatever their
\* other fields are, and get_article_stats leaves its record as it was.
C19_StatsFromTextOnly ==
    [][/\ statsIn' = statsIn
       /\ (Len(statsOut') = 2 /\ statsIn'[1].text = statsIn'[2].text) =>
             \A k \in SevenStats : statsOut'[1][k] = statsOut'[2][k]]_vars

\* two records with the same 1200-word text and different title, authors,
\* date, stored word count, score and method got the same statistics
C19_Witness ==
    /\ Len(statsOut) = 2
    /\ statsIn[1].text = Paragraphs(5)
    /\ statsIn[2].text = Paragraphs(5)
    /\ statsIn[1].word_count # statsIn[2].word_count
    /\ statsOut[1].title_length # statsOut[2].title_length
    /\ statsOut[1].word_count = 1200
    /\ statsOut[2].word_count = 1200
    /\ statsOut[2].sentence_count = 25
    /\ statsOut[2].estimated_reading_time = 6
    /\ statsOut[2].average_sentence_length = 480

\* C20: the quality_score of a returned record is the score of that
\* record's own final title, text, word count, authors and publish date,
\* so two records equal in these fields carry the same score.
C20_ScoreOfFinalFields ==
    (Finished /\ IsRecord(result)) =>
        result.quality_score =
            CalculateQualityScore([title |-> result.title, text |-> result.text,
                                   word_count |-> result.word_count,
                                   authors |-> result.authors,
                                   publish_date |-> result.publish_date])

\* a primary record whose cleaning changed what the scorer reads: the raw
\* text had 102 words, which would give 20 points, the record has 100
\* words and the 10 points of these
C20_Witness ==
    /\ pc = "done"
    /\ IsRecord(result)
    /\ result.extraction_method = "newspaper3k"
    /\ WordCount(primary.article.text) = 102
    /\ result.word_count = 100
    /\ result.title = LongTitle
    /\ result.quality_score = 10 + 20 + 10 + 0 + 0

----------------------------------------------------------------------------
(* Properties of the title component *)

\* the title component as the table states it: only the sentinel itself is
\* refused the 20 points
TableTitlePoints(title) ==
    CASE CharLen(title) > 20 /\ title # NotFoundTitle -> 20
      [] CharLen(title) > 20 /\ title = NotFoundTitle -> 15
      [] CharLen(title) <= 20 /\ CharLen(title) > 10 -> 15
      [] CharLen(title) <= 10 /\ CharLen(title) > 5 -> 10
      [] OTHER -> 0

\* C21: the title component of the score is 20 for every title longer than
\* 20 characters that is not the sentinel 'Title not found', headlines that
\* contain the words 'not found' included; it is 15 above 10 characters, 10
\* above 5 and 0 otherwise.
C21_TitleComponent ==
    scoreOut # -1 =>
        scoreOut - ( WordCountPoints(scoreIn.word_count)
                     + AuthorPoints(scoreIn.authors)
                     + DatePoints(scoreIn.publish_date)
                     + SentencePoints(scoreIn.text) )
          = TableTitlePoints(scoreIn.title)

----------------------------------------------------------------------------
(* _extract_content step by step, scraper.py lines 184-217                 *)
(*                                                                          *)
(* strategy is 1..4 while the strategy of that number is about to run and   *)
(* 5 once _extract_content has returned.  contentOut holds the returned     *)
(* text together with the strategy that returned it and the text it had     *)
(* before _clean_extracted_text was applied.                                *)

\* the test of lines 198, 205 and 212 applied to the cleaned text
MeetsThresholdCleaned(text, n) == WordCount(CleanExtractedText(text)) > n

\* len(text.split()) > n, the test of lines 198, 205 and 212
MeetsThreshold(text, n) == WordCount(text) > n

\* the text at which the loops of lines 194-199 and 209-213 return: the
\* first one of the list that passes the test, <<>> if the loop ends
FirstMeeting(texts, n) ==
    LET ok == {i \in 1..Len(texts) : MeetsThreshold(texts[i], n)}
    IN IF ok = {} THEN <<>> ELSE <<texts[SetMin(ok)]>>

\* texts of the elements the selectors of lines 187-192 match, in the order
\* the loops of lines 194-196 visit them
SelectedLists ==
    { <<>>,
      << <<"Q50">> >>,                                          \* 50 words
      << <<"Q50">>, Q2 \o <<" ", "reading">> >>,                \* 50, 101
      << Q2 \o <<" ", "spon", "sored">> >> }                    \* 101, 0 cleaned

\* texts of the <p> elements
ParagraphLists ==
    { <<>>,
      << <<"Q50">>, <<"Q50">> >>,                               \* 100 joined
      << Q2, <<"reading">> >> }                                 \* 101 joined

\* texts of the <div> elements in document order
DivLists ==
    { <<>>,
      << Q2 \o <<" ">> \o Q2 >>,                                \* 200 words
      << Q2, <<"P240">> >>,                                     \* 100, 240
      << <<"P240">>, <<"P240", " ", "Q50">> >> }                \* 240, 290

\* text outside the article containers, paragraphs and divs
RestLists == { <<>>, << <<"Q50">> >>, << <<"reading">>, <<"Q50">> >> }

\* the documents given to _extract_content; the text of the whole document
\* holds the text of its elements
ContentSoups ==
    { [BasePage EXCEPT !.selected = s, !.paragraphs = p, !.divs = d,
                       !.body = JoinTexts(s \o p \o d \o r)] :
        s \in SelectedLists, p \in ParagraphLists, d \in DivLists, r \in RestLists }

InitContent ==
    /\ contentIn \in ContentSoups
    /\ strategy = 1
    /\ evaluated = <<>>
    /\ contentOut = <<>>
    /\ ExtractIdle
    /\ CleanIdle
    /\ ScoreIdle
    /\ SoupIdle
    /\ ConcIdle
    /\ StatsIdle
    /\ AppIdle
    /\ SumIdle

\* return self._clean_extracted_text(text) at line 199, 206, 213 or 217
ContentReturn(k, text) ==
    /\ contentOut' = <<[strategy |-> k, raw |-> text,
                        text |-> CleanExtractedText(text)]>>
    /\ strategy' = 5

\* lines 186-199
Strategy1 ==
    /\ strategy = 1
    /\ evaluated' = Append(evaluated, 1)
    /\ LET hit == FirstMeeting(contentIn.selected, 100)
       IN IF hit # <<>> THEN ContentReturn(1, hit[1])
          ELSE strategy' = 2 /\ UNCHANGED contentOut
    /\ UNCHANGED <<contentIn, besideContent>>

\* lines 201-206
Strategy2 ==
    /\ strategy = 2
    /\ evaluated' = Append(evaluated, 2)
    /\ LET paragraphs == contentIn.paragraphs
           combined_text == JoinTexts(paragraphs)
       IN IF paragraphs # <<>> /\ MeetsThreshold(combined_text, 100)
          THEN ContentReturn(2, combined_text)
          ELSE strategy' = 3 /\ UNCHANGED contentOut
    /\ UNCHANGED <<contentIn, besideContent>>

\* lines 208-213
Strategy3 ==
    /\ strategy = 3
    /\ evaluated' = Append(evaluated, 3)
    /\ LET hit == FirstMeeting(contentIn.divs, 200)
       IN IF hit # <<>> THEN ContentReturn(3, hit[1])
          ELSE strategy' = 4 /\ UNCHANGED contentOut
    /\ UNCHANGED <<contentIn, besideContent>>

\* lines 215-217
Strategy4 ==
    /\ strategy = 4
    /\ evaluated' = Append(evaluated, 4)
    /\ ContentReturn(4, contentIn.body)
    /\ UNCHANGED <<contentIn, besideContent>>

NextContent == Strategy1 \/ Strategy2 \/ Strategy3 \/ Strategy4

SpecContent == InitContent /\ [][NextContent]_vars

----------------------------------------------------------------------------
(* Properties of _extract_content *)

\* the texts strategy k chooses from
Candidates(page, k) ==
    CASE k = 1 -> page.selected
      [] k = 2 -> IF page.paragraphs = <<>> THEN <<>>
                  ELSE <<JoinTexts(page.paragraphs)>>
      [] k = 3 -> page.divs
      [] OTHER -> <<page.body>>

\* the number of words a text of strategy k must exceed; strategy 4 has no
\* threshold
Threshold(k) == CASE k \in {1, 2} -> 100 [] k = 3 -> 200 [] OTHER -> -1

\* the candidates of strategy k whose raw text exceeds its threshold
Passing(page, k) ==
    {i \in 1..Len(Candidates(page, k)) :
        WordCount(Candidates(page, k)[i]) > Threshold(k)}

\* C22: the four strategies run strictly in order and the first whose raw
\* text exceeds its threshold is used: strategy k is reached only when every
\* strategy before it failed, the returned text is the cleaned text of the
\* first strategy that has a candidate above its threshold (counted on the
\* raw text), and no strategy after that one is evaluated.
C22_FirstStrategyInOrder ==
    /\ \A i \in 1..Len(evaluated) : evaluated[i] = i
    /\ strategy \in 1..4 =>
          /\ Len(evaluated) = strategy - 1
          /\ \A j \in 1..(strategy - 1) : Passing(contentIn, j) = {}
    /\ contentOut # <<>> =>
          LET r == contentOut[1]
              k == r.strategy
          IN /\ \A j \in 1..(k - 1) : Passing(contentIn, j) = {}
             /\ Passing(contentIn, k) # {}
             /\ r.raw \in {Candidates(contentIn, k)[i] : i \in Passing(contentIn, k)}
             /\ r.text = CleanExtractedText(r.raw)
             /\ r.text = ExtractContent(contentIn)
             /\ Len(evaluated) = k

\* strategy 1 returned a text of 101 raw words that cleans to nothing, while
\* the paragraphs and a div would have passed their thresholds
C22_Witness ==
    /\ contentOut # <<>>
    /\ contentOut[1].strategy = 1
    /\ WordCount(contentOut[1].raw) = 101
    /\ contentOut[1].text = <<>>
    /\ Passing(contentIn, 2) # {}
    /\ Passing(contentIn, 3) # {}
    /\ evaluated = <<1>>

\* C23: when strategies 1 and 2 fail and several block-level containers
\* each hold more than 200 words, strategy 3 uses the text of the largest
\* of them (the one with the most text), not merely the first one in
\* document order.
C23_LargestContainer ==
    (contentOut # <<>> /\ contentOut[1].strategy = 3) =>
        \A i \in Passing(contentIn, 3) :
            /\ CharLen(contentIn.divs[i]) <= CharLen(contentOut[1].raw)
            /\ WordCount(contentIn.divs[i]) <= WordCount(contentOut[1].raw)

----------------------------------------------------------------------------
(* Properties of the fallback gate *)

\* the text _extract_content returned to the fallback of the running call
FallbackContent == ExtractContent(DecomposeUnwanted(fallback.page))

\* the message of line 147 for a text of n words
InsufficientContent(n) ==
    <<"Insufficient content extracted. Only ", ToString(n), " words found.">>

\* C24: when the fallback has fetched a page and raises nothing, a content
\* that is empty or has 50 words or fewer makes extract_article return a
\* failure whose message states the number of words found (0 for an empty
\* text), and a content of more than 50 words makes it return a record.
C24_FallbackGate ==
    (Finished /\ fallback.kind = "page") =>
        LET text == FallbackContent
        IN IF text = <<>> \/ WordCount(text) <= 50
           THEN /\ IsError(result)
                /\ result.error = InsufficientContent(WordCount(text))
           ELSE IsRecord(result)

\* the fallback found exactly 50 words and reported them
C24_Witness ==
    /\ Finished
    /\ fallback.kind = "page"
    /\ WordCount(FallbackContent) = 50
    /\ result = [error |-> InsufficientContent(50)]

----------------------------------------------------------------------------
(* Properties of the line filter *)

\* the lines of a text without the blanks around them
StrippedLines(text) ==
    LET ls == SplitLines(text) IN [i \in 1..Len(ls) |-> Strip(ls[i])]

\* a line the filter is said to keep: 10 characters or more and no marker
LongEnoughNoMarker(line) == CharLen(line) >= 10 /\ ~HasMarker(line)

\* C25: the last step of the cleaner drops a line only if it is shorter
\* than 10 characters or contains a marker: the cleaned text is made of the
\* lines of 10 characters or more without marker, and a line of the text
\* that the cleaner keeps when it is given alone is not removed by a marker
\* in another line.
C25_LineFilter ==
    (Len(cleanOut) >= 1 /\ cleanIn # <<>>) =>
        /\ cleanOut[1]
             = Strip(JoinLines(SelectSeq(StrippedLines(NormalizedText(cleanIn)),
                                         LongEnoughNoMarker)))
        /\ (\E i \in 1..Len(SplitLines(cleanIn)) :
               CleanExtractedText(SplitLines(cleanIn)[i]) # <<>>)
             => cleanOut[1] # <<>>

----------------------------------------------------------------------------
(* Properties of the cleaner's output *)

\* a single whitespace-normalized line longer than 10 characters without
\* any marker
CleanLine(out) ==
    /\ \A i \in 1..Len(out) : out[i] # "\n"
    /\ CollapseWhitespace(out) = out
    /\ Strip(out) = out
    /\ CharLen(out) > 10
    /\ ~HasMarker(out)

\* C26 as stated: the output of _clean_extracted_text is empty or a single
\* whitespace-normalized line longer than 10 characters without any marker,
\* and a marker anywhere in the text given to the cleaner makes the output
\* empty.
C26_MarkerInInput ==
    Len(cleanOut) >= 1 =>
        /\ cleanOut[1] = <<>> \/ CleanLine(cleanOut[1])
        /\ HasMarker(cleanIn) => cleanOut[1] = <<>>

\* C26 amended: the output of _clean_extracted_text is empty or a single
\* whitespace-normalized line longer than 10 characters without any marker,
\* and a marker anywhere in the text as the substitutions of lines 322-351
\* leave it, on whatever line of the input, makes the output empty.
C26_MarkerAtFilter ==
    Len(cleanOut) >= 1 =>
        /\ cleanOut[1] = <<>> \/ CleanLine(cleanOut[1])
        /\ (cleanIn # <<>> /\ HasMarker(NormalizedText(cleanIn)))
              => cleanOut[1] = <<>>

\* a passage of 50 words is lost to the marker on the line after it
C26_Witness ==
    /\ cleanIn = <<"Q50", "\n", "spon", "sored">>
    /\ Len(cleanOut) >= 1
    /\ cleanOut[1] = <<>>
    /\ CleanExtractedText(<<"Q50">>) = <<"Q50">>

----------------------------------------------------------------------------
(* Properties of the extraction method *)

\* C27: the extraction method of a returned record names the path that
\* produced it: it is 'newspaper3k' exactly when the record was accepted in
\* the primary attempt (more than 50 raw words, at least 100 cleaned words,
\* fallback never invoked), 'fallback_beautifulsoup' exactly when the
\* fallback was invoked in the call, and never anything else.
C27_MethodNamesPath ==
    (Finished /\ IsRecord(result)) =>
        /\ result.extraction_method \in {"newspaper3k", "fallback_beautifulsoup"}
        /\ result.extraction_method = "newspaper3k"
             <=> /\ fallbackCalls = 0
                 /\ primary.kind = "parsed"
                 /\ WordCount(primary.article.text) > 50
                 /\ WordCount(CleanExtractedText(primary.article.text)) >= 100
        /\ result.extraction_method = "fallback_beautifulsoup"
             <=> fallbackCalls >= 1

\* the primary attempt parsed more than 50 words, missed the floor of 100
\* cleaned words, and the record came from the fallback
C27_Witness ==
    /\ Finished
    /\ IsRecord(result)
    /\ primary.kind = "parsed"
    /\ WordCount(primary.article.text) > 50
    /\ WordCount(CleanExtractedText(primary.article.text)) < 100
    /\ fallbackCalls = 1
    /\ result.extraction_method = "fallback_beautifulsoup"

----------------------------------------------------------------------------
(* The mode state machine of the app, app.py lines 78-107 and 226-242,     *)
(* config.py lines 5-17                                                     *)
(*                                                                          *)
(* Streamlit runs the script from top to bottom once for every event of a   *)
(* session: the page is opened, the text of a widget changes, a button is   *)
(* clicked, or st.rerun() was called.  st.button() is true only in the run  *)
(* its click started, st.text_input() returns the text the box holds, and   *)
(* st.session_state lives as long as the session.  browser[s] holds the     *)
(* value of the query parameter 'mode' ("none" when absent), the screen     *)
(* the last run rendered, the text of the password box, whether st.rerun()  *)
(* was called by the last run, and the event that started it.               *)

\* config.py line 6
DEBUG_PASSWORD == "aicte_debug_2024"

\* the texts typed into the password box
Passwords == {"", DEBUG_PASSWORD, "AICTE_DEBUG_2024", "guess"}

\* values of the query parameter 'mode'; "none" is the URL without it
ModeParams == {"none", "debug", "showcase"}

\* hashlib.sha256(p.encode()).hexdigest(): the digests of different
\* passwords of Passwords differ
Sha256(p) ==
    CASE p = "" -> "e3b0c442"
      [] p = DEBUG_PASSWORD -> "digest-of-debug-password"
      [] p = "AICTE_DEBUG_2024" -> "digest-of-upper-case"
      [] OTHER -> "digest-of-guess"

\* config.check_debug_access(password), config.py lines 8-10
CheckDebugAccess(password) == Sha256(password) = Sha256(DEBUG_PASSWORD)

\* what a run leaves: the session state, the screen it rendered and whether
\* it ended in st.rerun(), which discards the screen
Rendered(st, screen) == [state |-> st, screen |-> screen, rerun |-> FALSE]
Rerunning(st) == [state |-> st, screen |-> "none", rerun |-> TRUE]

\* show_debug_login(), app.py lines 94-107
ShowDebugLogin(st, password, click) ==
    IF click = "access" /\ CheckDebugAccess(password)
    THEN Rerunning([app_mode |-> "debug", debug_authenticated |-> TRUE])
    ELSE Rendered(st, "login")

\* show_showcase_mode(), app.py lines 109-224: no assignment to the mode or
\* to debug_authenticated
ShowShowcaseMode(st) == Rendered(st, "showcase")

\* show_debug_mode(), app.py lines 226-242
ShowDebugMode(st, click) ==
    CASE click = "switch" -> Rerunning([st EXCEPT !.app_mode = "showcase"])
      [] click = "logout" ->
            Rerunning([app_mode |-> "showcase", debug_authenticated |-> FALSE])
      [] OTHER -> Rendered(st, "debug")

\* app.py lines 88-92
Route(st, click) ==
    IF st.app_mode = "showcase" THEN ShowShowcaseMode(st)
    ELSE IF st.app_mode = "debug" THEN ShowDebugMode(st, click)
    ELSE Rendered(st, "none")

\* main() without the test of line 82
MainUnguarded(st, mode_param, password, click) ==
    IF mode_param = "debug"
    THEN Route([st EXCEPT !.app_mode = "debug"], click)
    ELSE Route(st, click)

\* main(), app.py lines 78-92
Main(st, mode_param, password, click) ==
    IF mode_param = "debug"
    THEN IF ~st.debug_authenticated
         THEN ShowDebugLogin(st, password, click)
         ELSE Route([st EXCEPT !.app_mode = "debug"], click)
    ELSE Route(st, click)

\* one run of the script in session s, started by event click, on session
\* state st, with the URL parameter q and the text pw in the password box;
\* the box keeps its text only while the login screen is rendered
ScriptRun(s, st, q, pw, click) ==
    LET r == Main(st, q, pw, click)
    IN /\ session_state' = [session_state EXCEPT ![s] = r.state]
       /\ browser' = [browser EXCEPT ![s] =
                        [mode_param |-> q, screen |-> r.screen,
                         password |-> IF r.screen = "login" THEN pw ELSE "",
                         rerun |-> r.rerun, event |-> click]]

InitApp ==
    /\ session_state = [s \in Sessions |-> InitialSessionState]
    /\ browser = [s \in Sessions |-> ClosedPage]
    /\ passed = [s \in Sessions |-> FALSE]
    /\ ExtractIdle
    /\ CleanIdle
    /\ ScoreIdle
    /\ SoupIdle
    /\ ConcIdle
    /\ StatsIdle
    /\ ContentIdle
    /\ SumIdle

\* the page is opened or reloaded with ?mode=q: a new session, whose state
\* line 18 of app.py initializes
Open(s, q) ==
    /\ ~browser[s].rerun
    /\ ScriptRun(s, InitialSessionState, q, "", "open")
    /\ passed' = [passed EXCEPT ![s] = FALSE]
    /\ UNCHANGED besideApp

\* the user changes the text of the password box
TypePassword(s, p) ==
    /\ ~browser[s].rerun
    /\ browser[s].screen = "login"
    /\ p # browser[s].password
    /\ ScriptRun(s, session_state[s], browser[s].mode_param, p, "type")
    /\ UNCHANGED <<passed, besideApp>>

\* the user clicks 'Access Debug Mode'
ClickAccess(s) ==
    /\ ~browser[s].rerun
    /\ browser[s].screen = "login"
    /\ ScriptRun(s, session_state[s], browser[s].mode_param,
                 browser[s].password, "access")
    /\ passed' = [passed EXCEPT ![s] = @ \/ browser[s].password = DEBUG_PASSWORD]
    /\ UNCHANGED besideApp

\* the user clicks 'Switch to Showcase'
ClickSwitch(s) ==
    /\ ~browser[s].rerun
    /\ browser[s].screen = "debug"
    /\ ScriptRun(s, session_state[s], browser[s].mode_param, "", "switch")
    /\ UNCHANGED <<passed, besideApp>>

\* the user clicks 'Logout Debug'
ClickLogout(s) ==
    /\ ~browser[s].rerun
    /\ browser[s].screen = "debug"
    /\ ScriptRun(s, session_state[s], browser[s].mode_param, "", "logout")
    /\ passed' = [passed EXCEPT ![s] = FALSE]
    /\ UNCHANGED besideApp

\* the run that st.rerun() asked for
Rerun(s) ==
    /\ browser[s].rerun
    /\ ScriptRun(s, session_state[s], browser[s].mode_param, "", "rerun")
    /\ UNCHANGED <<passed, besideApp>>

NextApp ==
    \E s \in Sessions :
        \/ \E q \in ModeParams : Open(s, q)
        \/ \E p \in Passwords : TypePassword(s, p)
        \/ ClickAccess(s)
        \/ ClickSwitch(s)
        \/ ClickLogout(s)
        \/ Rerun(s)

SpecApp == InitApp /\ [][NextApp]_vars

----------------------------------------------------------------------------
(* Properties of the mode state machine *)

\* the step is the submission of a wrong password in session s
WrongPasswordSubmitted(s) ==
    /\ browser[s].screen = "login"
    /\ ~browser[s].rerun
    /\ browser[s].password # DEBUG_PASSWORD
    /\ browser'[s].event = "access"
    /\ browser'[s].mode_param = browser[s].mode_param

\* in every session, debug mode implies authentication and the dashboard is
\* on screen only when the right password was given since the last logout
DebugOnlyAuthenticated ==
    \A s \in Sessions :
        /\ session_state[s].app_mode \in {"showcase", "debug"}
        /\ session_state[s].app_mode = "debug"
              => session_state[s].debug_authenticated
        /\ browser[s].screen = "debug"
              => (session_state[s].debug_authenticated /\ passed[s])
        /\ session_state[s].debug_authenticated => passed[s]

\* C28: from the initial state (showcase, not authenticated), under the
\* actions request debug by ?mode=debug, submit a password, switch to
\* showcase and log out, app_mode = 'debug' implies debug_authenticated in
\* every reachable state, the dashboard is never on screen without a
\* successful password check since the last logout, and a wrong password
\* changes neither variable.
C28_DebugNeedsPassword ==
    [][ /\ DebugOnlyAuthenticated
        /\ DebugOnlyAuthenticated'
        /\ \A s \in Sessions :
              WrongPasswordSubmitted(s) => session_state'[s] = session_state[s]
      ]_vars

\* session 1 has just submitted a wrong password and is still locked out
\* while session 2 is on the dashboard after a logout and a second login
C28_Witness ==
    /\ browser[1].event = "access"
    /\ browser[1].password = "guess"
    /\ browser[1].screen = "login"
    /\ session_state[1] = InitialSessionState
    /\ browser[2].screen = "debug"
    /\ session_state[2] = [app_mode |-> "debug", debug_authenticated |-> TRUE]


----------------------------------------------------------------------------
(* EfficientSummarizer, efficient_summarizer.py *)

\* the characters preprocess_text keeps at most, line 98
TokenLimit == 2800

\* the word count below which generate_summary does not summarize, line 120
MinWords == 100

RECURSIVE RemoveTrending(_)
\* re.sub(r'Trending.*?(?=\.|$)', '', text, flags=re.IGNORECASE) on a text
\* of one line: a match runs from 'Trending' to the next period, which
\* stays, or to the end of the text
RemoveTrending(s) ==
    IF s = <<>> THEN <<>>
    ELSE IF Lower(Head(s)) = "trending"
         THEN LET rest == Tail(s)
                  dots == {i \in 1..Len(rest) : rest[i] = "."}
              IN IF dots = {} THEN <<>>
                 ELSE RemoveTrending(SubSeq(rest, SetMin(dots), Len(rest)))
         ELSE <<Head(s)>> \o RemoveTrending(Tail(s))

\* lines 98-106: text[:2800], cut behind its last period when that period
\* lies in the last fifth, else before its last space. In every text of
\* SumTexts the chunk the limit falls into is a single word and a space
\* chunk stands behind the last block before it, so the last period and the
\* last space of text[:2800] are chunks
Truncate(s) ==
    IF CharLen(s) <= TokenLimit THEN s
    ELSE LET k == SetMax({i \in 0..Len(s) : CharLen(SubSeq(s, 1, i)) <= TokenLimit})
             Index(i) == CharLen(SubSeq(s, 1, i - 1))
             periods == {i \in 1..k : s[i] = "."}
             spaces == {i \in 1..k : s[i] = " "}
         IN IF periods # {} /\ 10 * Index(SetMax(periods)) > 8 * TokenLimit
            THEN SubSeq(s, 1, SetMax(periods))
            ELSE IF spaces # {} /\ Index(SetMax(spaces)) > 0
                 THEN SubSeq(s, 1, SetMax(spaces) - 1)
                 ELSE SubSeq(s, 1, k)

\* preprocess_text, lines 73-108. The patterns 'Also Read', 'Read More' and
\* 'Follow us on' match nothing the chunks can spell
PreprocessText(text) ==
    IF text = <<>> THEN <<>>
    ELSE LET t1 == Strip(CollapseWhitespace(text))
             t2 == RemoveEmails(RemoveUrls(t1))
             t3 == RemoveTrending(RemoveSpans(t2))
         IN Strip(Truncate(t3))

\* the sentences _post_process_summary appends, without their period
ComparisonSentence == <<" ", "Comparison12", ".">>
DevelopmentSentence == <<" ", "Development18", ".">>
ImplicationsSentence == <<" ", "Implications11", ".">>

\* lines 210-213: the words behind the last period are dropped when that
\* period lies behind seven tenths of the summary
DropIncomplete(summary) ==
    LET periods == {i \in 1..Len(summary) : summary[i] = "."}
        last == SetMax(periods)
    IN IF summary # <<>> /\ summary[Len(summary)] = "." THEN summary
       ELSE IF periods # {}
               /\ 10 * CharLen(SubSeq(summary, 1, last - 1)) > 7 * CharLen(summary)
            THEN SubSeq(summary, 1, last)
            ELSE summary

RECURSIVE ReplaceAdmits(_)
\* summary.replace(' He admits', '. Sam Altman admits')
ReplaceAdmits(s) ==
    IF s = <<>> THEN <<>>
    ELSE IF Len(s) >= 4 /\ SubSeq(s, 1, 4) = <<" ", "He", " ", "admits">>
         THEN <<".", " ", "Sam", " ", "Altman", " ", "admits">>
              \o ReplaceAdmits(SubSeq(s, 5, Len(s)))
         ELSE <<Head(s)>> \o ReplaceAdmits(Tail(s))

\* lines 216-227, length 'short'
PostProcessShort(summary) ==
    LET periods == {i \in 1..Len(summary) : summary[i] = "."}
        first == SetMin(periods)
        second == SetMin(periods \ {first})
        joined == Strip(SubSeq(summary, 1, first - 1) \o <<".", " ">>
                        \o SubSeq(summary, first + 1, second - 1))
        two == IF Cardinality(periods) < 2 THEN summary
               ELSE IF joined # <<>> /\ joined[Len(joined)] = "." THEN joined
               ELSE joined \o <<".">>
    IN IF WordCount(two) < 20 THEN ReplaceAdmits(two) ELSE two

\* lines 229-232, length 'medium'
PostProcessMedium(summary) ==
    LET named == \E i \in 1..(Len(summary) - 2) :
                    SubSeq(summary, i, i + 2) = <<"Manhattan", " ", "Project">>
    IN IF named /\ WordCount(summary) < 50 THEN summary \o ComparisonSentence
       ELSE summary

\* lines 234-242, length 'detailed'
PostProcessDetailed(summary) ==
    LET longer == IF WordCount(summary) < 120 THEN summary \o DevelopmentSentence
                  ELSE summary
        covered == \E i \in 1..Len(longer) :
                       Lower(longer[i]) = "implications" \/ longer[i] = "Implications11"
    IN IF ~covered /\ WordCount(longer) > 100 THEN longer \o ImplicationsSentence
       ELSE longer

\* _post_process_summary, lines 207-243
PostProcessSummary(summary, length) ==
    LET whole == DropIncomplete(summary)
    IN Strip(CASE length = "short" -> PostProcessShort(whole)
               [] length = "medium" -> PostProcessMedium(whole)
               [] length = "detailed" -> PostProcessDetailed(whole)
               [] OTHER -> whole)


\* self.length_configs, lines 48-64, with the default of line 130
LengthConfig(length) ==
    CASE length = "short" ->
            [max_length |-> 80, min_length |-> 40,
             description |-> "Brief overview (40-80 words)"]
      [] length = "detailed" ->
            [max_length |-> 300, min_length |-> 150,
             description |-> "Comprehensive summary (150-300 words)"]
      [] OTHER ->
            [max_length |-> 150, min_length |-> 80,
             description |-> "Balanced summary (80-150 words)"]

\* the num_beams of the parameters of lines 133-167; every length but
\* 'short' and 'medium' takes the last branch
NumBeams(length) ==
    CASE length = "short" -> 3 [] length = "medium" -> 4 [] OTHER -> 5

\* the texts given to the summarizer
LongWords(n) == [i \in 1..(2 * n - 1) |-> IF i % 2 = 1 THEN "H100" ELSE " "]
SumTexts ==
    {<<>>,
     <<"Q50">>,
     <<"W100">>,
     <<"W100", " ", "http://t">>,
     <<"Subscribe", " ", "to", " ", "W100", " ", "newsletter">>,
     <<"Trending", " ", "W100", ".", " ", "Q50">>,
     <<"W100", " ", "W100", "\n", "Foo">>,
     <<"W100", " ", "W100", " ", "W100", " ", "W100", ".", " ">> \o LongWords(4),
     <<"H1000", " ", "H1000", " ", "H1000">>}

\* the values of the argument lengths
LengthLists ==
    {<<"short", "medium", "detailed">>, <<"detailed">>, <<"tiny", "medium">>,
     <<"medium", "medium">>}

\* the texts the model gives as summary_text
SummaryTexts ==
    {<<" ", "Foo", " ", "He", " ", "admits", " ", "Bar", ".", " ", "Foo", ".", " ", "Bar">>,
     <<"Foo", " ", "Manhattan", " ", "Project", ".">>,
     <<"W100", " ", "Foo", ".">>}

\* what the call self.summarizer(clean_text, **params) of line 170 and the
\* subscripts of line 172 can do: give a summary, raise inside the
\* pipeline, or give a result without the key 'summary_text'
ModelOutcomes ==
    {[kind |-> "summary", text |-> t] : t \in SummaryTexts}
    \cup {[kind |-> "RuntimeError", text |-> <<>>],
          [kind |-> "KeyError", text |-> <<>>]}

\* round(time.time() - start_time, 2), in hundredths of a second
Durations == {0, 150}

\* the record of lines 121-128
InsufficientRecord(word_count) ==
    [summary |-> "Article too short for meaningful summarization. Minimum 100 words required.",
     status |-> "insufficient_content",
     processing_time |-> 0,
     compression_ratio |-> 0,
     original_words |-> word_count,
     summary_words |-> 0]

\* the record of lines 197-205
ErrorRecord(e) ==
    [summary |-> <<"Summarization failed: ", e>>,
     status |-> "error",
     processing_time |-> 0,
     compression_ratio |-> 0,
     original_words |-> 0,
     summary_words |-> 0,
     error_details |-> e]

\* round((1 - summary_words/original_words) * 100, 1), in tenths of a
\* percent
CompressionRatio(summary_words, original_words) ==
    RoundHalfEven(1000 * (original_words - summary_words), original_words)

\* lines 173-194: the metrics and the record of a summary; the division of
\* line 181 raises when the text has no word
SuccessOutcome(summary_text, original_words, length, elapsed) ==
    IF original_words = 0
    THEN [exc |-> "ZeroDivisionError", called |-> TRUE,
          beams |-> NumBeams(length), record |-> <<>>]
    ELSE [exc |-> "none", called |-> TRUE, beams |-> NumBeams(length),
          record |->
             [summary |-> summary_text,
              status |-> "success",
              processing_time |-> elapsed,
              compression_ratio |->
                  CompressionRatio(WordCount(summary_text), original_words),
              original_words |-> original_words,
              summary_words |-> WordCount(summary_text),
              length_type |-> length,
              model_used |-> "distilbart-cnn-12-6",
              config_used |-> LengthConfig(length).description]]

\* lines 119-171, with word_count the value of line 119: the early return,
\* the call of the model and what is done with its result
SummaryAfterCount(text, length, o, elapsed, word_count) ==
    IF word_count < MinWords
    THEN [exc |-> "none", called |-> FALSE, beams |-> 0,
          record |-> InsufficientRecord(word_count)]
    ELSE IF o.kind # "summary"
    THEN [exc |-> o.kind, called |-> TRUE, beams |-> NumBeams(length),
          record |-> <<>>]
    ELSE SuccessOutcome(PostProcessSummary(Strip(o.text), length),
                        WordCount(text), length, elapsed)

\* the body of the try statement, lines 113-194: exc names the exception
\* that leaves it, called tells whether line 170 was reached
SummaryBody(text, length, o, elapsed) ==
    SummaryAfterCount(text, length, o, elapsed, WordCount(PreprocessText(text)))

\* the subclasses of Exception the body can raise
ExceptionKinds == {"RuntimeError", "KeyError", "ZeroDivisionError"}

\* an except clause that names one class only
CaughtRuntimeOnly(exc) == exc = "RuntimeError"

\* except Exception as e, line 196
Caught(exc) == exc \in ExceptionKinds

\* what leaves generate_summary when its try body ended as body says
SummaryHandler(body) ==
    IF body.exc = "none"
    THEN [raised |-> FALSE, called |-> body.called, beams |-> body.beams,
          record |-> body.record]
    ELSE IF Caught(body.exc)
    THEN [raised |-> FALSE, called |-> body.called, beams |-> body.beams,
          record |-> ErrorRecord(body.exc)]
    ELSE [raised |-> TRUE, called |-> body.called, beams |-> body.beams,
          record |-> <<>>]

\* generate_summary, lines 110-205
GenerateSummary(text, length, o, elapsed) ==
    SummaryHandler(SummaryBody(text, length, o, elapsed))

InitSum ==
    /\ batchIn \in {[pending |-> FALSE, text |-> t, lengths |-> ls] :
                       t \in SumTexts, ls \in LengthLists}
    /\ position = 0
    /\ results = <<>>
    /\ attempts = <<>>
    /\ seed = 0
    /\ batchOut = <<>>
    /\ batchEscaped = FALSE
    /\ ExtractIdle
    /\ CleanIdle
    /\ ScoreIdle
    /\ SoupIdle
    /\ ConcIdle
    /\ StatsIdle
    /\ ContentIdle
    /\ AppIdle

\* one pass of the loop of batch_summarize, lines 252-267, with r the
\* outcome of the call of line 258
SummarizeStep(length, o, r) ==
    /\ seed' = 42 + position * 10
    /\ attempts' = Append(attempts,
           [length |-> length, seed |-> 42 + position * 10, called |-> r.called,
            beams |-> r.beams,
            outcome |-> IF r.called THEN o.kind ELSE "none",
            raised |-> r.raised, record |-> r.record])
    /\ IF r.raised
       THEN batchEscaped' = TRUE /\ UNCHANGED <<results, position>>
       ELSE /\ results' = [l \in DOMAIN results \cup {length} |->
                              IF l = length THEN r.record ELSE results[l]]
            /\ position' = position + 1
            /\ UNCHANGED batchEscaped

SummarizeNext ==
    /\ ~batchIn.pending
    /\ ~batchEscaped
    /\ batchOut = <<>>
    /\ position < Len(batchIn.lengths)
    /\ \E o \in ModelOutcomes, elapsed \in Durations :
          SummarizeStep(batchIn.lengths[position + 1], o,
                        GenerateSummary(batchIn.text, batchIn.lengths[position + 1],
                                        o, elapsed))
    /\ UNCHANGED <<batchIn, batchOut>>
    /\ UNCHANGED besideSum

\* return results, line 272
BatchReturn ==
    /\ ~batchIn.pending
    /\ ~batchEscaped
    /\ batchOut = <<>>
    /\ position = Len(batchIn.lengths)
    /\ batchOut' = <<results>>
    /\ UNCHANGED <<batchIn, position, results, attempts, seed, batchEscaped>>
    /\ UNCHANGED besideSum

NextSum == SummarizeNext \/ BatchReturn

SpecSum == InitSum /\ [][NextSum]_vars

----------------------------------------------------------------------------
(* Properties of the summarizer *)

Statuses == {"success", "insufficient_content", "error"}

\* the records of the lengths processed so far, the last one of each length
LastRecord(length) ==
    LET at == {i \in 1..Len(attempts) : attempts[i].length = length}
    IN attempts[SetMax(at)].record

\* C29: generate_summary never raises and returns a record whose status is
\* 'success', 'insufficient_content' or 'error'; a preprocessed text of
\* fewer than 100 words gives 'insufficient_content' with summary_words 0
\* and no call of the model; an exception of the model or of what follows
\* it gives an 'error' record; batch_summarize returns one such record for
\* every requested length, also for those behind a length that failed
C29_SummaryTotal ==
    /\ ~batchEscaped
    /\ Len(attempts) = position
    /\ \A i \in 1..Len(attempts) :
          LET a == attempts[i]
          IN /\ ~a.raised
             /\ a.length = batchIn.lengths[i]
             /\ a.record.status \in Statuses
             /\ WordCount(PreprocessText(batchIn.text)) < 100 =>
                   /\ ~a.called
                   /\ a.record.status = "insufficient_content"
                   /\ a.record.summary_words = 0
             /\ WordCount(PreprocessText(batchIn.text)) >= 100 => a.called
             /\ a.outcome \in ExceptionKinds => a.record.status = "error"
             /\ a.outcome = "summary" => a.record.status = "success"
    /\ batchOut # <<>> =>
          /\ Len(attempts) = Len(batchIn.lengths)
          /\ DOMAIN batchOut[1] = {batchIn.lengths[i] : i \in 1..Len(batchIn.lengths)}
          /\ \A l \in DOMAIN batchOut[1] : batchOut[1][l] = LastRecord(l)

\* a batch returned three records although the model raised for the first
\* length and gave a malformed result for the second
C29_Witness ==
    /\ batchOut # <<>>
    /\ Len(batchIn.lengths) = 3
    /\ attempts[1].outcome = "RuntimeError"
    /\ attempts[2].outcome = "KeyError"
    /\ batchOut[1]["short"].status = "error"
    /\ batchOut[1]["detailed"].status = "success"


----------------------------------------------------------------------------
(* Properties of get_article_stats on any result *)

StatsKeys ==
    {"word_count", "character_count", "sentence_count", "paragraph_count",
     "estimated_reading_time", "quality_score", "extraction_method",
     "has_authors", "has_date", "title_length", "extracted_at",
     "average_sentence_length", "average_paragraph_length"}

\* C30: get_article_stats is total: an error result gives the error and
\* nothing else; every other dict gives all statistics, with
\* estimated_reading_time >= 1 and paragraph_count >= 1, and the averages
\* are computed without a division by zero, also for a text that is empty
\* or has no sentence or paragraph
C30_StatsTotal ==
    \A i \in 1..Len(statsOut) :
        LET in == statsIn[i]
            out == statsOut[i]
        IN /\ "raised" \notin DOMAIN out
           /\ "error" \in DOMAIN in => out = [error |-> in.error]
           /\ "error" \notin DOMAIN in =>
                 /\ DOMAIN out = StatsKeys
                 /\ out.estimated_reading_time >= 1
                 /\ out.paragraph_count >= 1
                 /\ out.average_sentence_length >= 0
                 /\ out.average_paragraph_length >= 0
                 /\ out.sentence_count = 0 =>
                       out.average_sentence_length = 10 * out.word_count

\* an error result gave only its error, and a record with empty text gave
\* statistics with the two floors of 1 and averages of 0
C30_Witness ==
    /\ Len(statsOut) = 2
    /\ "error" \in DOMAIN statsIn[1]
    /\ "text" \in DOMAIN statsIn[1]
    /\ statsOut[1] = [error |-> statsIn[1].error]
    /\ "text" \in DOMAIN statsIn[2]
    /\ statsIn[2].text = <<>>
    /\ statsOut[2].word_count = 0
    /\ statsOut[2].sentence_count = 0
    /\ statsOut[2].paragraph_count = 1
    /\ statsOut[2].estimated_reading_time = 1
    /\ statsOut[2].average_sentence_length = 0
    /\ statsOut[2].average_paragraph_length = 0

====
